---- MODULE Spec2Model ----
(***************************************************************************)
(* A model of SystemGuardian (src/system_guardian_pro.py): the rolling     *)
(* baselines and the anomaly / trend analysis of get_system_metrics, the   *)
(* alert buffer, the cleanup executor and the optimization score.          *)
(*                                                                         *)
(* Units.  Percentages are whole percents (integers); the health score  *)
(* is also modelled on percentages in tenths.  health_score is in       *)
(* tenths of a percent, a trend rate in hundredths of a percent per cycle, *)
(* file sizes in MB, priorities in thousandths, safety scores in tenths.   *)
(* statistics.mean / statistics.stdev compute exactly over the data; they  *)
(* are modelled by exact integer inequalities over sums and sums of        *)
(* squares, never by rounded values.                                       *)
(***************************************************************************)
EXTENDS Integers, Sequences, FiniteSets, TLC

VARIABLES
    config,              \* self.config (the keys the model reads)
    ml_baseline,         \* self.ml_baseline: signal -> list of values
    alerts,              \* self.alerts: deque(maxlen=100)
    optimization_score,  \* self.optimization_score
    files,               \* the files under config["temp_dirs"]: id -> stat
    now,                 \* datetime.now(), in hours
    caches,              \* the cache directories below the working directory
    metrics,             \* what the last get_system_metrics call returned
    cleanup_result,      \* what the last perform_cleanup call returned / did
    optimizations,       \* what the last optimize_system call returned
    source,              \* the external signal source: its pattern
    appended,            \* history: every value appended to each baseline
    added,               \* history: every alert passed to add_alert
    spikes,              \* history: number of cycles with an outlying sample
    failures,            \* history: number of failed signal reads
    alert_mix,           \* the callers of add_alert: the levels they pass
    running,             \* self.running
    cycle_count,         \* run: the local cycle_count
    pc,                  \* run: the statement of the loop body to run next
    history,             \* history: what the iterations of run did
    health,              \* a _calculate_health_score call: arguments, result
    scanned              \* the scan_cleanup_targets calls: inputs, result

\* the frame of run and self.running, which only run and the 'quit' command
\* write
loop_vars == <<running, cycle_count, pc, history>>

\* the fields of self and the environment
self_vars == <<config, ml_baseline, alerts, optimization_score, files, now,
               caches, metrics, cleanup_result, optimizations, source,
               appended, added, spikes, failures, alert_mix>>

vars == <<config, ml_baseline, alerts, optimization_score, files, now, caches,
          metrics, cleanup_result, optimizations, source, appended, added,
          spikes, failures, alert_mix, running, cycle_count, pc, history,
          health, scanned>>

\* the records of the calls that are looked at by themselves
call_vars == <<health, scanned>>

----------------------------------------------------------------------------
(* Bounds of the model.                                                    *)

\* longest run of samples in the baseline specification (> the window)
MaxSamples == 52
\* longest run of samples in the detection specification
MaxDetectSamples == 12
\* cycles with an outlying sample per run
MaxSpikes == 1
\* failed signal reads per run
MaxFailures == 1
\* add_alert calls per run (> the capacity of the buffer)
MaxAlerts == 103
\* monitoring cycles in the optimization specification
MaxOptimizeSamples == 2
\* the faults of a cleanup batch hit its first MaxFaultyFiles files
MaxFaultyFiles == 2
\* perform_cleanup calls per run
MaxCleanupCalls == 1
\* counted cycles of an undisturbed run of the loop
MaxCycles == 16
\* counted cycles of a run of the loop that meets faults
MaxFaultCycles == 13
\* the faults of a run of the loop occur in its first MaxFaultWindow cycles
MaxFaultWindow == 2
\* counted cycles of a run of the loop whose samples may be outliers
MaxThresholdCycles == 13
\* scan_cleanup_targets calls of a run of scans
MaxScans == 2
\* hours that pass in a run of scans
MaxHours == 2
\* counted cycles of a run of the loop in demo mode (> the 30 of line 32)
MaxDemoCycles == 32
\* faults per run of the loop: exceptions in the loop body, failed signal
\* reads, failed enumerations
MaxLoopFaults == 1

----------------------------------------------------------------------------
(* Program constants.                                                      *)

ml_learning_window == 50
AlertsMaxlen == 100
MinAnomalySamples == 10
MinTrendSamples == 5

SignalSet == {"cpu", "memory", "disk"}

\* config after __init__; DEMO switches auto_cleanup off
InitialConfig(demo) ==
    [cpu_threshold |-> 80, memory_threshold |-> 85, disk_threshold |-> 90,
     auto_cleanup |-> ~demo, max_file_age_days |-> 30,
     ml_learning_window |-> ml_learning_window]

----------------------------------------------------------------------------
(* Sequence helpers.                                                       *)

RECURSIVE SumSeq(_)
SumSeq(s) == IF s = <<>> THEN 0 ELSE Head(s) + SumSeq(Tail(s))

RECURSIVE SumSq(_)
SumSq(s) == IF s = <<>> THEN 0 ELSE Head(s) * Head(s) + SumSq(Tail(s))

\* s[-n:] of Python, n > 0
LastN(s, n) == IF Len(s) <= n THEN s ELSE SubSeq(s, Len(s) - n + 1, Len(s))

\* s[:n] of Python
FirstN(s, n) == IF Len(s) <= n THEN s ELSE SubSeq(s, 1, n)

Max(a, b) == IF a > b THEN a ELSE b

Min(a, b) == IF a < b THEN a ELSE b

----------------------------------------------------------------------------
(* The external signal source.  A pattern gives the k-th sample of a       *)
(* signal: steady at the signal's level, or alternating between the level  *)
(* and the level + 2.  A cycle may replace the sample of some signals by   *)
(* an outlier.  A drifting pattern moves away from the level by the       *)
(* increments of its period, within 0..100.                                *)

Patterns == {"const", "alt"}

Level(sig) == CASE sig = "cpu" -> 50 [] sig = "memory" -> 60 [] sig = "disk" -> 70

\* the drifting patterns and the increments of a period of each
Increments ==
    [climb |-> <<1, 1, 1, 2, 2>>, surge |-> <<2, 3, 2, 3, 3>>,
     slide |-> <<-1, -1, -1, -2, -2>>, plunge |-> <<-2, -3, -2, -3, -3>>]

DriftPatterns == DOMAIN Increments

\* the sum of the first k - 1 increments
RECURSIVE Drifted(_, _)
Drifted(inc, k) ==
    IF k <= 1 THEN 0
    ELSE Drifted(inc, k - 1) + inc[((k - 2) % Len(inc)) + 1]

PatternValue(p, sig, k) ==
    CASE p = "const" -> Level(sig)
      [] p = "alt"   -> IF k % 2 = 1 THEN Level(sig) ELSE Level(sig) + 2
      [] OTHER       ->
            Max(0, Min(100, Level(sig) + Drifted(Increments[p], k)))

SpikeValue == 99

SampleOf(sig, k, spiked) ==
    IF sig \in spiked THEN SpikeValue ELSE PatternValue(source, sig, k)

----------------------------------------------------------------------------
(* The alert buffer.                                                       *)

DequeAppend_drops_newest(q, x) == FirstN(Append(q, x), AlertsMaxlen)

\* deque(maxlen=100).append: the oldest entry is dropped on overflow
DequeAppend(q, x) == LastN(Append(q, x), AlertsMaxlen)

\* the alert record of add_alert; datetime.now() is the logical time, the
\* number of the add_alert call
Alert(message, level, technical_details) ==
    [timestamp |-> Len(added) + 1, level |-> level, message |-> message,
     technical_details |-> technical_details]

add_alert(message, level, technical_details) ==
    /\ alerts' = DequeAppend(alerts, Alert(message, level, technical_details))
    /\ added' = Append(added, Alert(message, level, technical_details))

----------------------------------------------------------------------------
(* Sampling and analysis: get_system_metrics and its helpers.              *)

\* line 130 with the two tests joined by `and`
Penalized_both(cpu, memory) == cpu > 900 /\ memory > 950

\* line 130: the test of the penalty, on percentages in tenths
Penalized(cpu, memory) == cpu > 900 \/ memory > 950

\* lines 128-130 on percentages in tenths (the estimators round to one
\* decimal): weighted_score in 200ths of a percent
WeightedScore(cpu, memory, disk) ==
    LET cpu_score == Max(0, 1000 - cpu)
        memory_score == Max(0, 1000 - memory)
        disk_score == Max(0, 1000 - disk)
        \* 0.4, 0.4 and 0.2 of a tenth are 8, 8 and 4 200ths
        weighted_score == cpu_score * 8 + memory_score * 8 + disk_score * 4
    IN  IF Penalized(cpu, memory) THEN weighted_score \div 2
        ELSE weighted_score

\* round(x, 1) of x 200ths, in tenths: the nearest tenth; when x is half
\* way between two tenths the binary value of the float decides, and
\* either of them can be the result
RoundToTenths(x) ==
    LET q == x \div 20
        r == x % 20
    IN  IF r < 10 THEN {q} ELSE IF r > 10 THEN {q + 1} ELSE {q, q + 1}

\* lines 126-131 on percentages in tenths: the values the call can return,
\* in tenths
HealthScores(cpu, memory, disk) ==
    RoundToTenths(WeightedScore(cpu, memory, disk))

\* lines 126-131 on whole percents, where the weighted score is a whole
\* number of tenths: the result in tenths
_calculate_health_score(cpu, memory, disk) ==
    CHOOSE score \in HealthScores(10 * cpu, 10 * memory, 10 * disk) : TRUE

_update_ml_baseline_keeps_oldest(b, cpu, memory, disk) ==
    LET window_size == config.ml_learning_window
        value == [cpu |-> cpu, memory |-> memory, disk |-> disk]
    IN  [metric \in SignalSet |->
            FirstN(Append(b[metric], value[metric]), window_size)]

_update_ml_baseline(b, cpu, memory, disk) ==
    LET window_size == config.ml_learning_window
        value == [cpu |-> cpu, memory |-> memory, disk |-> disk]
    IN  [metric \in SignalSet |->
            LET grown == Append(b[metric], value[metric])
            IN  IF Len(grown) > window_size THEN LastN(grown, window_size)
                ELSE grown]

\* anomaly_threshold = 2.0
anomaly_threshold == 2

\* n * (n - 1) * variance of the data, n = Len(data): the Bessel-corrected
\* variance of statistics.stdev is SpreadOf(data) / (n * (n - 1))
SpreadOf(data) == Len(data) * SumSq(data) - SumSeq(data) * SumSeq(data)

\* statistics.stdev(data) > 0.5, i.e. variance > 1/4
StdevAboveFloor(data) == 4 * SpreadOf(data) > Len(data) * (Len(data) - 1)

\* abs(value - mean(data)) > anomaly_threshold * stdev(data), both sides
\* squared and multiplied by n * n * (n - 1)
DeviatesFrom(data, value) ==
    LET n == Len(data)
        d == n * value - SumSeq(data)
    IN  d * d * (n - 1)
            > anomaly_threshold * anomaly_threshold * n * SpreadOf(data)

IsAnomaly_no_floor(baseline, value) ==
    /\ Len(baseline) >= MinAnomalySamples
    /\ DeviatesFrom(baseline, value)

IsAnomaly_above_ten(baseline, value) ==
    /\ Len(baseline) > MinAnomalySamples
    /\ StdevAboveFloor(baseline)
    /\ DeviatesFrom(baseline, value)

\* the condition of lines 146-149 for one signal
IsAnomaly(baseline, value) ==
    /\ Len(baseline) >= MinAnomalySamples
    /\ StdevAboveFloor(baseline)
    /\ DeviatesFrom(baseline, value)

\* lines 145-150 with the loop left at the first anomaly
_detect_anomalies_first_only(b, cpu, memory, disk) ==
    LET value == [cpu |-> cpu, memory |-> memory, disk |-> disk]
        entry(metric) ==
            IF IsAnomaly(b[metric], value[metric])
            THEN <<[metric |-> metric, value |-> value[metric]]>>
            ELSE <<>>
    IN  FirstN(entry("cpu") \o entry("memory") \o entry("disk"), 1)

\* the list of anomaly records, in the order cpu, memory, disk
_detect_anomalies(b, cpu, memory, disk) ==
    LET value == [cpu |-> cpu, memory |-> memory, disk |-> disk]
        entry(metric) ==
            IF IsAnomaly(b[metric], value[metric])
            THEN <<[metric |-> metric, value |-> value[metric]]>>
            ELSE <<>>
    IN  entry("cpu") \o entry("memory") \o entry("disk")

\* line 162 with slope >= 1 and slope <= -1
_analyze_trends_inclusive(b, cpu, memory, disk) ==
    [metric \in {m \in SignalSet : Len(b[m]) >= MinTrendSamples} |->
        LET recent_trend == LastN(b[metric], 5)
            rise == recent_trend[Len(recent_trend)] - recent_trend[1]
        IN  [direction |-> IF rise >= Len(recent_trend) THEN "increasing"
                           ELSE IF rise <= 0 - Len(recent_trend)
                                THEN "decreasing" ELSE "stable",
             rate |-> (rise * 100) \div Len(recent_trend)]]

\* slope = (recent[-1] - recent[0]) / 5; rate = round(slope, 2) in hundredths
_analyze_trends(b, cpu, memory, disk) ==
    [metric \in {m \in SignalSet : Len(b[m]) >= MinTrendSamples} |->
        LET recent_trend == LastN(b[metric], 5)
            rise == recent_trend[Len(recent_trend)] - recent_trend[1]
        IN  [direction |-> IF rise > Len(recent_trend) THEN "increasing"
                           ELSE IF rise < 0 - Len(recent_trend)
                                THEN "decreasing" ELSE "stable",
             rate |-> (rise * 100) \div Len(recent_trend)]]

_identify_optimizations(b) ==
    (IF Len(b.memory) > 0 /\ SumSeq(b.memory) > 70 * Len(b.memory)
     THEN <<"Memory cleanup recommended">> ELSE <<>>)
    \o (IF Len(b.cpu) > 0 /\ SumSeq(b.cpu) > 60 * Len(b.cpu)
        THEN <<"Process optimization needed">> ELSE <<>>)

\* lines 104-121 with the update moved in front of the analysis
MeasureAfterUpdate(b, cpu, memory, disk) ==
    LET b2 == _update_ml_baseline(b, cpu, memory, disk)
    IN  [metrics |->
            [cpu_percent |-> cpu, memory_percent |-> memory,
             disk_percent |-> disk,
             health_score |-> _calculate_health_score(cpu, memory, disk),
             trend_prediction |-> _analyze_trends(b2, cpu, memory, disk),
             anomaly_detected |-> _detect_anomalies(b2, cpu, memory, disk),
             optimization_opportunities |-> _identify_optimizations(b2)],
         ml_baseline |-> b2]

\* lines 104-121: the metrics record and the baseline after the call
Measure(b, cpu, memory, disk) ==
    [metrics |->
        [cpu_percent |-> cpu, memory_percent |-> memory,
         disk_percent |-> disk,
         health_score |-> _calculate_health_score(cpu, memory, disk),
         trend_prediction |-> _analyze_trends(b, cpu, memory, disk),
         anomaly_detected |-> _detect_anomalies(b, cpu, memory, disk),
         optimization_opportunities |-> _identify_optimizations(b)],
     ml_baseline |-> _update_ml_baseline(b, cpu, memory, disk)]

\* get_system_metrics; the run is at most `limit` samples long, and the
\* signals whose sample is an outlier in a cycle are one of `outliers`
get_system_metrics(limit, outliers) ==
    \/ /\ Len(appended.cpu) < limit
       /\ \E spiked \in outliers :
            /\ spiked = {} \/ spikes < MaxSpikes
            /\ LET k == Len(appended.cpu) + 1
                   cpu == SampleOf("cpu", k, spiked)
                   memory == SampleOf("memory", k, spiked)
                   disk == SampleOf("disk", k, spiked)
                   out == Measure(ml_baseline, cpu, memory, disk)
               IN  /\ metrics' = out.metrics
                   /\ ml_baseline' = out.ml_baseline
                   /\ appended' = [cpu |-> Append(appended.cpu, cpu),
                                   memory |-> Append(appended.memory, memory),
                                   disk |-> Append(appended.disk, disk)]
                   /\ spikes' = IF spiked = {} THEN spikes ELSE spikes + 1
       /\ UNCHANGED <<config, alerts, optimization_score, files, now, caches,
                      cleanup_result, optimizations, source, added,
                      failures, alert_mix>>
    \/ \* the signal source raises: lines 122-124
       /\ failures < MaxFailures
       /\ add_alert("Metrics error", "error",
                    [exception_type |-> "Exception"])
       /\ metrics' = <<>>
       /\ failures' = failures + 1
       /\ UNCHANGED <<config, ml_baseline, optimization_score, files, now, caches,
                      cleanup_result, optimizations, source, appended,
                      spikes, alert_mix>>

----------------------------------------------------------------------------
(* The state after SystemGuardian.__init__ (lines 14-34).                  *)

\* the time the process starts at, in hours
StartTime == 2000

Constructed(demo) ==
    /\ config = InitialConfig(demo)
    /\ ml_baseline = [metric \in SignalSet |-> <<>>]
    /\ alerts = <<>>
    /\ optimization_score = 100
    /\ metrics = <<>>
    /\ cleanup_result = <<>>
    /\ optimizations = <<>>
    /\ appended = [metric \in SignalSet |-> <<>>]
    /\ added = <<>>
    /\ spikes = 0
    /\ failures = 0
    /\ now = StartTime
    /\ running = TRUE
    /\ cycle_count = 0
    /\ pc = "start"
    /\ history = <<>>
    /\ health = <<>>
    /\ scanned = <<>>

(* Monitoring alone: the temp directories and the working directory hold   *)
(* nothing to clean, the signal source follows either pattern.             *)
InitMonitoring ==
    /\ Constructed(FALSE)
    /\ source \in Patterns
    /\ alert_mix = "warnings"
    /\ files = <<>>
    /\ caches = {}

\* long runs of the plain patterns
NextBaseline ==
    get_system_metrics(MaxSamples, {{}}) /\ UNCHANGED <<loop_vars, call_vars>>

SpecBaseline == InitMonitoring /\ [][NextBaseline]_vars

\* short runs in which any set of signals may show an outlier
NextDetect ==
    get_system_metrics(MaxDetectSamples, SUBSET SignalSet)
    /\ UNCHANGED <<loop_vars, call_vars>>

SpecDetect == InitMonitoring /\ [][NextDetect]_vars

----------------------------------------------------------------------------
(* Properties of the baseline windows and of the analysis.                 *)

\* the window a signal had when the last successful cycle began
PriorWindow(sig) ==
    LastN(SubSeq(appended[sig], 1, Len(appended[sig]) - 1),
          config.ml_learning_window)

PriorWindows == [sig \in SignalSet |-> PriorWindow(sig)]

\* the sample of the last successful cycle
LastSample(sig) == appended[sig][Len(appended[sig])]

\* the last cycle returned a metrics record
Measured == metrics # <<>>

\* the last cycle's anomaly list names the signal
Flagged(sig) ==
    \E i \in 1..Len(metrics.anomaly_detected) :
        metrics.anomaly_detected[i].metric = sig

\* C1: each baseline window holds at most ml_learning_window values, and it
\* is the last ml_learning_window values appended, in their order.
C1_WindowIsFifo ==
    \A sig \in SignalSet :
        /\ Len(ml_baseline[sig]) <= config.ml_learning_window
        /\ ml_baseline[sig] = LastN(appended[sig], config.ml_learning_window)

\* more values were appended than the window holds, and they alternate
C1_Witness ==
    /\ Len(appended.cpu) > config.ml_learning_window
    /\ source = "alt"
    /\ Len(ml_baseline.cpu) = config.ml_learning_window

\* the 12 samples of the end-to-end scenario: cpu 50, the 11th 99
Scenario == [k \in 1..12 |-> IF k = 11 THEN 99 ELSE 50]

FedScenarioPrefix ==
    /\ Measured
    /\ Len(appended.cpu) <= 12
    /\ appended.cpu = SubSeq(Scenario, 1, Len(appended.cpu))

\* C2 as stated: in the scenario the detector flags cpu on sample 11 and on
\* no other sample.
C2_FlagsEleventhOnly ==
    FedScenarioPrefix => (Flagged("cpu") <=> Len(appended.cpu) = 11)

\* C2 amended: in the scenario the detector flags cpu on no sample; on
\* sample 11 the prior 10 samples have standard deviation 0, below the floor.
C2_FlagsNoSample ==
    FedScenarioPrefix =>
        /\ ~Flagged("cpu")
        /\ Len(appended.cpu) = 11 =>
              /\ Len(PriorWindow("cpu")) = 10
              /\ ~StdevAboveFloor(PriorWindow("cpu"))

\* the 11th sample of the scenario has been analysed
C2_Witness ==
    /\ FedScenarioPrefix
    /\ Len(appended.cpu) = 11
    /\ LastSample("cpu") = 99

\* C3 as stated: no signal is flagged over a window of fewer than 10
\* values, and over a window of exactly 10 values a value further than two
\* standard deviations from the mean is flagged.
C3_TenSamplesFlagOutlier ==
    Measured =>
        \A sig \in SignalSet :
            /\ Len(PriorWindow(sig)) < 10 => ~Flagged(sig)
            /\ (/\ Len(PriorWindow(sig)) = 10
                /\ DeviatesFrom(PriorWindow(sig), LastSample(sig)))
               => Flagged(sig)

\* C3 amended: no signal is flagged over a window of fewer than 10 values,
\* and over a window of exactly 10 values whose standard deviation exceeds
\* 0.5 a value further than two standard deviations from the mean is flagged.
C3_TenSamplesAboveFloor ==
    Measured =>
        \A sig \in SignalSet :
            /\ Len(PriorWindow(sig)) < 10 => ~Flagged(sig)
            /\ (/\ Len(PriorWindow(sig)) = 10
                /\ StdevAboveFloor(PriorWindow(sig))
                /\ DeviatesFrom(PriorWindow(sig), LastSample(sig)))
               => Flagged(sig)

\* an outlier is flagged over a window of exactly 10 values
C3_Witness ==
    /\ Measured
    /\ Len(PriorWindow("cpu")) = 10
    /\ LastSample("cpu") = SpikeValue
    /\ Flagged("cpu")

\* C4 as stated: the anomaly list and the trends of a cycle are those of
\* the windows that already hold the cycle's sample.
C4_AnalysisSeesSample ==
    Measured =>
        /\ metrics.anomaly_detected =
              _detect_anomalies(ml_baseline, LastSample("cpu"),
                                LastSample("memory"), LastSample("disk"))
        /\ metrics.trend_prediction =
              _analyze_trends(ml_baseline, LastSample("cpu"),
                              LastSample("memory"), LastSample("disk"))

\* C4 amended: the anomaly list and the trends of a cycle are those of the
\* windows as they were before the cycle's sample was appended; the sample
\* is appended after both have run.
C4_AnalysisPrecedesAppend ==
    Measured =>
        /\ metrics.anomaly_detected =
              _detect_anomalies(PriorWindows, LastSample("cpu"),
                                LastSample("memory"), LastSample("disk"))
        /\ metrics.trend_prediction =
              _analyze_trends(PriorWindows, LastSample("cpu"),
                              LastSample("memory"), LastSample("disk"))
        /\ \A sig \in SignalSet :
              ml_baseline[sig] =
                  LastN(Append(PriorWindow(sig), LastSample(sig)),
                        config.ml_learning_window)

\* a cycle whose anomaly list differs between the two windows
C4_Witness ==
    /\ Measured
    /\ Len(appended.cpu) = 11
    /\ metrics.anomaly_detected = <<>>
    /\ _detect_anomalies(ml_baseline, LastSample("cpu"),
                         LastSample("memory"), LastSample("disk")) # <<>>

----------------------------------------------------------------------------
(* The alert buffer under a long run of add_alert calls.  self.alerts is   *)
(* written at lines 21 and 206 only, so every operation changes it through *)
(* add_alert.  A run's callers pass warnings only (the threshold alerts of *)
(* line 433) or warnings, infos and errors in turn (lines 433, 445, 476).  *)

AlertMixes == {"warnings", "mixed"}

LevelOf(mix, n) ==
    IF mix = "warnings" THEN "warning"
    ELSE CASE n % 3 = 1 -> "warning" [] n % 3 = 2 -> "info" [] OTHER -> "error"

MessageOf(level) ==
    CASE level = "warning" -> "CPU Threshold"
      [] level = "info"    -> "System Optimized"
      [] level = "error"   -> "Runtime error"

AddAlertCall ==
    /\ Len(added) < MaxAlerts
    /\ LET level == LevelOf(alert_mix, Len(added) + 1)
       IN  add_alert(MessageOf(level), level, [cycle |-> Len(added)])
    /\ UNCHANGED <<config, ml_baseline, optimization_score, files, now, caches,
                   metrics, cleanup_result, optimizations, source, appended,
                   spikes, failures, alert_mix>>

InitAlerts ==
    /\ Constructed(FALSE)
    /\ source = "const"
    /\ alert_mix \in AlertMixes
    /\ files = <<>>
    /\ caches = {}

NextAlerts == AddAlertCall /\ UNCHANGED <<loop_vars, call_vars>>

SpecAlerts == InitAlerts /\ [][NextAlerts]_vars

\* C9: the buffer holds at most 100 alerts, and they are the most recently
\* appended alerts, each as it was appended, in the order of appending; a
\* step leaves every alert it does not evict as it was, and it evicts from
\* the old end only.
C9_BufferIsRecentAlerts ==
    /\ [](Len(alerts) <= 100 /\ alerts = LastN(added, 100))
    /\ [][\E k \in 0..Len(alerts) :
            /\ Len(alerts') >= Len(alerts) - k
            /\ SubSeq(alerts', 1, Len(alerts) - k)
                  = SubSeq(alerts, k + 1, Len(alerts))]_vars

\* more than 100 alerts of several levels were appended
C9_Witness ==
    /\ Len(added) > 100
    /\ Len(alerts) = 100
    /\ alerts[1].timestamp = Len(added) - 99
    /\ alert_mix = "mixed"

----------------------------------------------------------------------------
(* optimize_system and the cache directories it removes.                   *)

\* the directories below the working directory whose name holds
\* "__pycache__" or ".cache"
CacheDirs == {"__pycache__", "pkg/__pycache__", ".cache"}

\* _pure_cache_cleanup: every cache directory is removed unless its rmtree
\* fails (`stuck`); the count of the removed ones is "cleared"
_pure_cache_cleanup(existing, stuck) ==
    [cleared |-> Cardinality(existing \ stuck), left |-> existing \cap stuck]

NewScore_unclamped(score, points) == score + (points - 5)

\* line 305
NewScore(score, points) == Min(100, Max(0, score + (points - 5)))

\* optimize_system; `freed` says whether the second gc.collect() found
\* fewer objects than the first
optimize_system ==
    \E stuck \in SUBSET caches, freed \in BOOLEAN :
        LET cache_stats == _pure_cache_cleanup(caches, stuck)
            cache_points == IF cache_stats.cleared > 0 THEN 20 ELSE 0
            memory_points == IF freed THEN 15 ELSE 0
        IN  /\ caches' = cache_stats.left
            /\ optimizations' =
                  (IF cache_stats.cleared > 0 THEN <<"Cache cleanup">>
                   ELSE <<>>)
                  \o (IF freed THEN <<"Memory optimized">> ELSE <<>>)
            /\ optimization_score' =
                  NewScore(optimization_score, cache_points + memory_points)
            /\ UNCHANGED <<config, ml_baseline, alerts, files, now, metrics,
                           cleanup_result, source, appended, added, spikes,
                           failures, alert_mix>>

\* the environment: the interpreter or a tool writes a cache directory
CacheCreated ==
    \E d \in CacheDirs \ caches :
        /\ caches' = caches \cup {d}
        /\ UNCHANGED <<config, ml_baseline, alerts, optimization_score, files, now,
                       metrics, cleanup_result, optimizations, source,
                       appended, added, spikes, failures, alert_mix>>

InitOptimize ==
    /\ Constructed(FALSE)
    /\ source = "const"
    /\ alert_mix = "warnings"
    /\ files = <<>>
    /\ caches \in SUBSET CacheDirs

\* optimization passes between monitoring cycles
NextOptimize ==
    \/ optimize_system /\ UNCHANGED <<loop_vars, call_vars>>
    \/ CacheCreated /\ UNCHANGED <<loop_vars, call_vars>>
    \/ get_system_metrics(MaxOptimizeSamples, {{}}) /\ UNCHANGED <<loop_vars, call_vars>>

SpecOptimize == InitOptimize /\ [][NextOptimize]_vars

\* the points of an optimize_system call, read from the list it returned
PointsOf(list) ==
    (IF \E i \in 1..Len(list) : list[i] = "Cache cleanup" THEN 20 ELSE 0)
    + (IF \E i \in 1..Len(list) : list[i] = "Memory optimized" THEN 15 ELSE 0)

Clamp(x) == IF x < 0 THEN 0 ELSE IF x > 100 THEN 100 ELSE x

\* C10: optimization_score is in [0,100] in every state; a step that
\* changes it, or the list optimize_system returns, sets it to the old
\* score + (points earned - 5) clamped to [0,100]; steps of the other
\* operations leave it as it is.
C10_ScoreClamped ==
    /\ [](optimization_score \in 0..100)
    /\ [][(optimization_score' # optimization_score
           \/ optimizations' # optimizations)
          => optimization_score' =
                Clamp(optimization_score + PointsOf(optimizations') - 5)]_vars
    /\ [][(metrics' # metrics \/ caches' \ caches # {})
          => optimization_score' = optimization_score]_vars

\* the clamp has acted: a call worth 35 points has left the score at 100,
\* between monitoring cycles
C10_Witness ==
    /\ optimization_score = 100
    /\ PointsOf(optimizations) = 35
    /\ Len(appended.cpu) > 0

----------------------------------------------------------------------------
(* Paths.  A path is the sequence of its characters, so that str.lower,    *)
(* the substring test `in` and pathlib's suffix are computed, not assumed. *)

\* str.lower on one character (the upper-case letters the paths use)
LowerChar(c) ==
    CASE c = "T" -> "t" [] c = "D" -> "d" [] c = "S" -> "s" [] OTHER -> c

\* str.lower
Lower(str) == [i \in 1..Len(str) |-> LowerChar(str[i])]

\* pat in str
Contains(str, pat) ==
    \E i \in 0..(Len(str) - Len(pat)) : SubSeq(str, i + 1, i + Len(pat)) = pat

\* the index of the last occurrence of c, 0 if there is none
RFind(str, c) ==
    IF \E i \in 1..Len(str) : str[i] = c
    THEN CHOOSE i \in 1..Len(str) :
            str[i] = c /\ \A j \in (i + 1)..Len(str) : str[j] # c
    ELSE 0

\* PurePath.name: what follows the last "/"
NameOf(path) == SubSeq(path, RFind(path, "/") + 1, Len(path))

\* PurePath.suffix: the name from its last ".", unless that "." is the
\* first or the last character of the name
SuffixOf(path) ==
    LET name == NameOf(path)
        i == RFind(name, ".")
    IN  IF 1 < i /\ i < Len(name) THEN SubSeq(name, i, Len(name)) ELSE <<>>

\* the strings of the source, as character sequences
S_tmp == <<".", "t", "m", "p">>
S_cache == <<".", "c", "a", "c", "h", "e">>
S_log == <<".", "l", "o", "g">>
S_out == <<".", "o", "u", "t">>
S_bak == <<".", "b", "a", "k">>
S_old == <<".", "o", "l", "d">>
S_exe == <<".", "e", "x", "e">>
S_dll == <<".", "d", "l", "l">>
S_sys == <<".", "s", "y", "s">>
S_temp == <<"t", "e", "m", "p">>
S_system == <<"s", "y", "s", "t", "e", "m">>
S_program == <<"p", "r", "o", "g", "r", "a", "m">>
S_windows == <<"w", "i", "n", "d", "o", "w", "s">>
S_config == <<"c", "o", "n", "f", "i", "g">>
S_system32 == <<"s", "y", "s", "t", "e", "m", "3", "2">>
S_program_files ==
    <<"p", "r", "o", "g", "r", "a", "m", " ", "f", "i", "l", "e", "s">>

\* line 213; the categories in the order of the dict
file_categories ==
    <<[category |-> "temp", extensions |-> <<S_tmp, S_cache>>],
      [category |-> "logs", extensions |-> <<S_log, S_out>>],
      [category |-> "backup", extensions |-> <<S_bak, S_old>>]>>

\* lines 254 and 279
ExecutableSuffixes == {S_exe, S_dll, S_sys}

----------------------------------------------------------------------------
(* The files below config["temp_dirs"] = ["/tmp", "/home/u/Downloads"].    *)
(* A file has a number, the order in which rglob discovers the files; its  *)
(* path never changes, its stat is [size_mb, mtime] while it exists.       *)

\* the files /tmp/c01.tmp, /tmp/c02.tmp, ...: more than one batch
BulkFiles == 16

Digit(d) == <<"0", "1", "2", "3", "4", "5", "6", "7", "8", "9">>[d + 1]

BulkPath(i) ==
    <<"/", "t", "m", "p", "/", "c", Digit((i \div 10) % 10), Digit(i % 10)>>
    \o S_tmp

BulkStat(i) == [size_mb |-> (i * 7) % 5, mtime |-> StartTime - (721 + 24 * i)]

\* the other files: path, size in MB, age in hours at the start
SpecialFiles ==
    <<[path |->
         <<"/", "t", "m", "p", "/", "c", "o", "n", "f", "i", "g", "/", "a",
           "p", "p", ".", "t", "m", "p">>,
       size_mb |-> 1, age |-> 1000],
      [path |->
         <<"/", "t", "m", "p", "/", "s", "e", "t", "u", "p", ".", "e", "x",
           "e">>,
       size_mb |-> 2, age |-> 1000],
      [path |->
         <<"/", "t", "m", "p", "/", "c", "o", "r", "e", ".", "l", "o", "g">>,
       size_mb |-> 150, age |-> 1000],
      [path |->
         <<"/", "t", "m", "p", "/", "t", "r", "a", "c", "e", ".", "l", "o",
           "g", "s">>,
       size_mb |-> 1, age |-> 1000],
      [path |->
         <<"/", "t", "m", "p", "/", "d", "a", "y", "3", "0", ".", "t", "m",
           "p">>,
       size_mb |-> 1, age |-> 720],
      [path |->
         <<"/", "h", "o", "m", "e", "/", "u", "/", "D", "o", "w", "n", "l",
           "o", "a", "d", "s", "/", "n", "o", "t", "e", "s", ".", "t", "x",
           "t">>,
       size_mb |-> 1, age |-> 120],
      [path |->
         <<"/", "h", "o", "m", "e", "/", "u", "/", "D", "o", "w", "n", "l",
           "o", "a", "d", "s", "/", "T", "e", "m", "p", "/", "o", "l", "d",
           ".", "b", "a", "k">>,
       size_mb |-> 3, age |-> 1000],
      [path |->
         <<"/", "t", "m", "p", "/", "t", "e", "m", "p", "/", "b", "i", "g",
           ".", "t", "m", "p">>,
       size_mb |-> 50, age |-> 750]>>

FilePaths ==
    [i \in 1..(BulkFiles + Len(SpecialFiles)) |->
        IF i <= BulkFiles THEN BulkPath(i)
        ELSE SpecialFiles[i - BulkFiles].path]

FileIds == DOMAIN FilePaths

IdOf(path) == CHOOSE i \in FileIds : FilePaths[i] = path

\* every file exists
FullTree ==
    [i \in FileIds |->
        IF i <= BulkFiles THEN BulkStat(i)
        ELSE [size_mb |-> SpecialFiles[i - BulkFiles].size_mb,
              mtime |-> StartTime - SpecialFiles[i - BulkFiles].age]]

\* the function f without the arguments in gone
Without(f, gone) == [i \in DOMAIN f \ gone |-> f[i]]

\* the file systems a run starts with: every file, or a handful of them
FileSystems == {FullTree, Without(FullTree, 4..BulkFiles)}

----------------------------------------------------------------------------
(* The cleanup planner: scan_cleanup_targets and its helpers.              *)

\* (datetime.now() - file_time).days
AgeDays(t, file_time) == (t - file_time) \div 24

\* any(ext in file_ext for cat_exts in categories.values() for ext in ...)
DisposableSuffix(file_ext) ==
    \E c \in 1..Len(file_categories) :
        \E e \in 1..Len(file_categories[c].extensions) :
            Contains(file_ext, file_categories[c].extensions[e])

\* "temp" in str(file_path).lower()
InTempLocation(file_path) == Contains(Lower(file_path), S_temp)

_categorize_file(file_path) ==
    LET file_str == Lower(file_path)
        file_ext == Lower(SuffixOf(file_path))
        matches(c) ==
            \E e \in 1..Len(file_categories[c].extensions) :
                \/ Contains(file_ext, file_categories[c].extensions[e])
                \/ Contains(file_str, file_categories[c].extensions[e])
    IN  IF \E c \in 1..Len(file_categories) : matches(c)
        THEN file_categories[
                CHOOSE c \in 1..Len(file_categories) :
                    matches(c) /\ \A d \in 1..(c - 1) : ~matches(d)].category
        ELSE "unknown"

\* the safety score without line 254, the test of the suffix
_assess_file_safety_by_path_only(file_path) ==
    LET file_str == Lower(file_path)
    IN  IF \E pattern \in {S_system, S_program, S_windows, S_config} :
              Contains(file_str, pattern)
        THEN 1
        ELSE 9

\* the safety score in tenths
_assess_file_safety(file_path) ==
    LET file_str == Lower(file_path)
    IN  IF \E pattern \in {S_system, S_program, S_windows, S_config} :
              Contains(file_str, pattern)
        THEN 1
        ELSE IF Lower(SuffixOf(file_path)) \in ExecutableSuffixes THEN 3
        ELSE 9

\* the path of _final_safety_check: no executable suffix, and neither
\* "system32" nor "program files" in the path
PathPassesFinalCheck(file_path) ==
    /\ Lower(SuffixOf(file_path)) \notin ExecutableSuffixes
    /\ ~\E sys_path \in {S_system32, S_program_files} :
          Contains(Lower(file_path), sys_path)

\* what the helpers compute from the path alone, computed once per file
PathFacts ==
    [i \in FileIds |->
        [disposable |-> DisposableSuffix(Lower(SuffixOf(FilePaths[i]))),
         in_temp |-> InTempLocation(FilePaths[i]),
         category |-> _categorize_file(FilePaths[i]),
         safety_score |-> _assess_file_safety(FilePaths[i]),
         executable |->
            Lower(SuffixOf(FilePaths[i])) \in ExecutableSuffixes,
         final_check |-> PathPassesFinalCheck(FilePaths[i])]]

\* the priority in thousandths.  Three times the exact sum is an integer:
\* 0.4 * min(1, age / 30) is 40 * min(30, age) / 3 thousandths; round(x, 3)
\* is then the nearest integer (a third is never a tie)
_calculate_cleanup_priority(i, age_days, size_mb) ==
    LET age3 == 40 * Min(30, age_days)
        size3 == 9 * Min(100, size_mb)
        type3 == IF PathFacts[i].disposable THEN 480 ELSE 180
        location3 == IF PathFacts[i].in_temp THEN 270 ELSE 150
    IN  (2 * (age3 + size3 + type3 + location3) + 3) \div 6

\* the candidate record of lines 227-228 for file i with stat st at time t
CandidateOf(i, st, t) ==
    [path |-> FilePaths[i], size_mb |-> st.size_mb,
     age_days |-> AgeDays(t, st.mtime),
     priority |-> _calculate_cleanup_priority(i, AgeDays(t, st.mtime),
                                              st.size_mb),
     category |-> PathFacts[i].category,
     safety_score |-> PathFacts[i].safety_score]

\* the insertion of a sort that puts x in front of the entries of its own
\* priority
RECURSIVE InsertByPriority_before_equals(_, _)
InsertByPriority_before_equals(sorted, x) ==
    IF sorted = <<>> THEN <<x>>
    ELSE IF Head(sorted).priority > x.priority
         THEN <<Head(sorted)>>
              \o InsertByPriority_before_equals(Tail(sorted), x)
         ELSE <<x>> \o sorted

\* sorted(targets, key=priority, reverse=True): x goes behind every entry
\* whose priority is at least its own (the sort is stable)
RECURSIVE InsertByPriority(_, _)
InsertByPriority(sorted, x) ==
    IF sorted = <<>> THEN <<x>>
    ELSE IF Head(sorted).priority >= x.priority
         THEN <<Head(sorted)>> \o InsertByPriority(Tail(sorted), x)
         ELSE <<x>> \o sorted

RECURSIVE SortByPriority(_)
SortByPriority(list) ==
    IF list = <<>> THEN <<>>
    ELSE InsertByPriority(SortByPriority(SubSeq(list, 1, Len(list) - 1)),
                          list[Len(list)])

\* the existing files in the order of discovery, from file number i on
RECURSIVE Discovered(_, _)
Discovered(fs, i) ==
    IF i \notin FileIds THEN <<>>
    ELSE (IF i \in DOMAIN fs THEN <<i>> ELSE <<>>) \o Discovered(fs, i + 1)

\* lines 219-229 over the discovered files: a file whose stat fails
\* (`unreadable`) is passed over; file_time < cutoff_date is
\* now - mtime > max_file_age_days, in hours
RECURSIVE Retained(_, _, _, _)
Retained(ids, fs, t, unreadable) ==
    IF ids = <<>> THEN <<>>
    ELSE LET i == Head(ids)
             c == CandidateOf(i, fs[i], t)
         IN  (IF /\ i \notin unreadable
                 /\ t - fs[i].mtime > 24 * config.max_file_age_days
                 /\ c.priority > 200
              THEN <<c>> ELSE <<>>)
             \o Retained(Tail(ids), fs, t, unreadable)

\* config["temp_dirs"], in the order of the list
temp_dirs ==
    <<<<"/", "t", "m", "p">>,
      <<"/", "h", "o", "m", "e", "/", "u", "/", "D", "o", "w", "n", "l", "o",
        "a", "d", "s">>>>

\* the file is below the directory
Under(path, dir) ==
    /\ Len(path) > Len(dir) + 1
    /\ SubSeq(path, 1, Len(dir) + 1) = dir \o <<"/">>

\* the temp directory each file is below, computed once per file
DirOf ==
    [i \in FileIds |->
        CHOOSE d \in 1..Len(temp_dirs) : Under(FilePaths[i], temp_dirs[d])]

\* the loop of line 219 over temp directory d: the existing files below it
\* in the order of discovery; when the enumeration raises (d \in DOMAIN
\* cut) the loop ends after the cut[d] files it had yielded, and line 230
\* passes over the exception
EnumeratedBelow(d, fs, cut) ==
    LET below == SelectSeq(Discovered(fs, 1), LAMBDA i : DirOf[i] = d)
    IN  IF d \in DOMAIN cut THEN FirstN(below, cut[d]) ELSE below

\* the files that the loops of lines 215-219 reach, directory by directory
RECURSIVE Enumerated(_, _, _)
Enumerated(d, fs, cut) ==
    IF d > Len(temp_dirs) THEN <<>>
    ELSE EnumeratedBelow(d, fs, cut) \o Enumerated(d + 1, fs, cut)

\* the enumeration failures of a scan: no directory fails, or one fails
\* at once or after its first file
Cuts ==
    {<<>>} \cup {(d :> n) : d \in 1..Len(temp_dirs), n \in 0..1}

\* the scan with `targets` kept between the calls
scan_cleanup_targets_accumulating(fs, t, unreadable, cut) ==
    SortByPriority(
        (IF scanned = <<>> THEN <<>> ELSE scanned[Len(scanned)].targets)
        \o Retained(Enumerated(1, fs, cut), fs, t, unreadable))

\* scan_cleanup_targets at time t over the file system fs; the stat of the
\* files in `unreadable` raises, the enumerations in `cut` raise
scan_cleanup_targets(fs, t, unreadable, cut) ==
    SortByPriority(Retained(Enumerated(1, fs, cut), fs, t, unreadable))

----------------------------------------------------------------------------
(* The cleanup executor: perform_cleanup and _final_safety_check.          *)

\* safe_targets[:15]
max_batch_size == 15

\* what can go wrong with one file of a batch: it is gone before its turn
\* (another process removed it), the stat of _final_safety_check raises,
\* the stat of line 268 raises, or unlink raises
FaultKinds == {"vanished", "check_stat", "stat", "unlink"}

\* _final_safety_check of file i; an exception of stat gives False
_final_safety_check(i, st, stat_raises) ==
    IF PathFacts[i].executable THEN FALSE
    ELSE IF stat_raises THEN FALSE
    ELSE IF st.size_mb > 100 THEN FALSE
    ELSE PathFacts[i].final_check

\* t.get("safety_score", 0) > 0.7 and t.get("priority", 0) > 0.5
PassesGate(t) == t.safety_score > 7 /\ t.priority > 500

RECURSIVE SelectSeq2(_)
SelectSeq2(targets) ==
    IF targets = <<>> THEN <<>>
    ELSE (IF PassesGate(Head(targets)) THEN <<Head(targets)>> ELSE <<>>)
         \o SelectSeq2(Tail(targets))

\* line 262
safe_targets(targets) == SelectSeq2(targets)

BatchOf_uncapped(targets) == safe_targets(targets)

\* line 264: safe_targets[:15]
BatchOf(targets) == FirstN(safe_targets(targets), max_batch_size)

\* categories[key] += 1 on a defaultdict(int)
Bump(counts, key) ==
    IF key \in DOMAIN counts THEN [counts EXCEPT ![key] = @ + 1]
    ELSE counts @@ (key :> 1)

\* the loop body with a failed stat or unlink counted as safety-skipped
CleanOne_failure_skipped(acc, target, fault) ==
    LET i == IdOf(target.path)
        fs == IF fault = "vanished" THEN Without(acc.files, {i})
              ELSE acc.files
        log(what) == Append(acc.outcomes, [path |-> target.path,
                                           outcome |-> what])
    IN  IF i \in DOMAIN fs
           /\ _final_safety_check(i, fs[i], fault = "check_stat")
        THEN IF fault \in {"stat", "unlink"}
             THEN [acc EXCEPT !.files = fs, !.safety_skipped = @ + 1,
                              !.outcomes = log("failed")]
             ELSE [acc EXCEPT
                      !.files = Without(fs, {i}),
                      !.count = @ + 1,
                      !.size = @ + fs[i].size_mb,
                      !.categories = Bump(@, target.category),
                      !.outcomes = log("removed")]
        ELSE [acc EXCEPT !.files = fs, !.safety_skipped = @ + 1,
                         !.outcomes = log("skipped")]

\* one pass of the loop body, lines 265-274, over the state of the call
CleanOne(acc, target, fault) ==
    LET i == IdOf(target.path)
        fs == IF fault = "vanished" THEN Without(acc.files, {i})
              ELSE acc.files
        log(what) == Append(acc.outcomes, [path |-> target.path,
                                           outcome |-> what])
    IN  IF i \in DOMAIN fs
           /\ _final_safety_check(i, fs[i], fault = "check_stat")
        THEN IF fault \in {"stat", "unlink"}
             THEN \* the exception is passed over: nothing is counted
                  [acc EXCEPT !.files = fs, !.outcomes = log("failed")]
             ELSE [acc EXCEPT
                      !.files = Without(fs, {i}),
                      !.count = @ + 1,
                      !.size = @ + fs[i].size_mb,
                      !.categories = Bump(@, target.category),
                      !.outcomes = log("removed")]
        ELSE [acc EXCEPT !.files = fs, !.safety_skipped = @ + 1,
                         !.outcomes = log("skipped")]

\* the loop with the except clause ending the batch at the first failure
RECURSIVE CleanBatch_aborts(_, _, _)
CleanBatch_aborts(acc, batch, faults) ==
    IF batch = <<>> THEN acc
    ELSE LET i == IdOf(Head(batch).path)
             fault == IF i \in DOMAIN faults THEN faults[i] ELSE "none"
             next == CleanOne(acc, Head(batch), fault)
         IN  IF next.outcomes[Len(next.outcomes)].outcome = "failed"
             THEN next
             ELSE CleanBatch_aborts(next, Tail(batch), faults)

\* the loop of lines 264-274
RECURSIVE CleanBatch(_, _, _)
CleanBatch(acc, batch, faults) ==
    IF batch = <<>> THEN acc
    ELSE LET i == IdOf(Head(batch).path)
             fault == IF i \in DOMAIN faults THEN faults[i] ELSE "none"
         IN  CleanBatch(CleanOne(acc, Head(batch), fault),
                        Tail(batch), faults)

\* what a call that the policy gate of line 259 stops returns: 0, 0, {}
Refused(fs, targets, faults) ==
    [enabled |-> FALSE, targets |-> targets, before |-> fs, files |-> fs,
     batch |-> <<>>, count |-> 0, size |-> 0, categories |-> <<>>,
     safety_skipped |-> 0, outcomes |-> <<>>, faults |-> <<>>]

perform_cleanup_ungated(fs, targets, faults) ==
    CleanBatch([enabled |-> TRUE, targets |-> targets, before |-> fs,
                files |-> fs, batch |-> BatchOf(targets), count |-> 0,
                size |-> 0, categories |-> <<>>, safety_skipped |-> 0,
                outcomes |-> <<>>, faults |-> faults],
               BatchOf(targets), faults)

\* perform_cleanup on the file system fs: the counts it returns (count,
\* size in MB, categories, safety_skipped), the file system it leaves
\* (files), and for the record the arguments (targets, before), the batch
\* it took, the faults it met and what became of each file of the batch
\* (outcomes)
perform_cleanup(fs, targets, faults) ==
    IF ~config.auto_cleanup THEN Refused(fs, targets, faults)
    ELSE CleanBatch([enabled |-> TRUE, targets |-> targets, before |-> fs,
                     files |-> fs, batch |-> BatchOf(targets), count |-> 0,
                     size |-> 0, categories |-> <<>>, safety_skipped |-> 0,
                     outcomes |-> <<>>, faults |-> faults],
                    BatchOf(targets), faults)

\* the faults of a call: each of the first MaxFaultyFiles files of the
\* batch meets no fault or one of a kind
FaultsOf(targets) ==
    LET head == FirstN(BatchOf(targets), MaxFaultyFiles)
        ids == {IdOf(head[k].path) : k \in 1..Len(head)}
    IN  UNION {[S -> FaultKinds] : S \in SUBSET ids}


\* the candidates of every existing file, unfiltered, as discovered
RECURSIVE CandidatesOf(_, _, _)
CandidatesOf(ids, fs, t) ==
    IF ids = <<>> THEN <<>>
    ELSE <<CandidateOf(Head(ids), fs[Head(ids)], t)>>
         \o CandidatesOf(Tail(ids), fs, t)

\* the number of perform_cleanup calls so far
CleanupCalls == IF cleanup_result = <<>> THEN 0 ELSE cleanup_result.calls

\* a call of perform_cleanup by `caller` on `targets`
CallCleanup(caller, targets, faults) ==
    LET r == perform_cleanup(files, targets, faults)
    IN  /\ CleanupCalls < MaxCleanupCalls
        /\ files' = r.files
        /\ cleanup_result' =
              r @@ [caller |-> caller, calls |-> CleanupCalls + 1]

\* the cleanup of a run-loop cycle, lines 435-445
PeriodicCleanup ==
    LET cleanup_targets == scan_cleanup_targets(files, now, {}, <<>>)
    IN  /\ cleanup_targets # <<>>
        /\ \E faults \in FaultsOf(cleanup_targets) :
              LET r == perform_cleanup(files, cleanup_targets, faults)
              IN  /\ CallCleanup("cycle", cleanup_targets, faults)
                  /\ IF r.count > 0
                     THEN add_alert("Pro AI Cleanup", "info",
                                    [count |-> r.count,
                                     targets |-> Len(cleanup_targets)])
                     ELSE UNCHANGED <<alerts, added>>
        /\ UNCHANGED <<config, ml_baseline, optimization_score, now, caches,
                       metrics, optimizations, source, appended, spikes,
                       failures, alert_mix>>

\* the 'cleanup' command, lines 388-395, answered with y
CommandCleanup ==
    LET targets == scan_cleanup_targets(files, now, {}, <<>>)
    IN  /\ targets # <<>>
        /\ \E faults \in FaultsOf(targets) :
              CallCleanup("command", targets, faults)
        /\ UNCHANGED <<config, ml_baseline, alerts, optimization_score, now,
                       caches, metrics, optimizations, source, appended,
                       added, spikes, failures, alert_mix>>

\* perform_cleanup on the candidates of every file, whatever their age
DirectCleanup ==
    LET targets == CandidatesOf(Discovered(files, 1), files, now)
    IN  /\ targets # <<>>
        /\ \E faults \in FaultsOf(targets) :
              CallCleanup("direct", targets, faults)
        /\ UNCHANGED <<config, ml_baseline, alerts, optimization_score, now,
                       caches, metrics, optimizations, source, appended,
                       added, spikes, failures, alert_mix>>

InitCleanup ==
    /\ \E demo \in BOOLEAN : Constructed(demo)
    /\ source = "const"
    /\ alert_mix = "warnings"
    /\ files \in FileSystems
    /\ caches = {}

NextCleanup ==
    \/ PeriodicCleanup /\ UNCHANGED <<loop_vars, call_vars>>
    \/ CommandCleanup /\ UNCHANGED <<loop_vars, call_vars>>
    \/ DirectCleanup /\ UNCHANGED <<loop_vars, call_vars>>

SpecCleanup == InitCleanup /\ [][NextCleanup]_vars

----------------------------------------------------------------------------
(* Properties of the cleanup executor.  cleanup_result is the record of    *)
(* the last perform_cleanup call.                                          *)

\* the fault that file i met in the call recorded by r
FaultOn(r, i) == IF i \in DOMAIN r.faults THEN r.faults[i] ELSE "none"

\* the files that the call recorded by r removed: those that were there
\* before it and are not after it, but for the files another process took
RemovedBy(r) ==
    {i \in DOMAIN r.before \ DOMAIN r.files : FaultOn(r, i) # "vanished"}

\* the total size in MB of the files ids of the file system fs
RECURSIVE SizeOf(_, _)
SizeOf(fs, ids) ==
    IF ids = {} THEN 0
    ELSE LET i == CHOOSE x \in ids : TRUE
         IN  fs[i].size_mb + SizeOf(fs, ids \ {i})

\* a candidate that the selection of line 262 must take
Selectable(t) == t.safety_score > 7 /\ t.priority > 500

\* C5: one perform_cleanup call removes at most max_batch_size (15) files,
\* every file it removes belongs to a candidate of its list with
\* safety_score > 0.7 and priority > 0.5, and no candidate of the batch
\* has safety_score <= 0.7 or priority <= 0.5
C5_BatchGatedAndCapped ==
    cleanup_result # <<>> =>
        LET r == cleanup_result
        IN  /\ r.count <= max_batch_size
            /\ Cardinality(RemovedBy(r)) <= max_batch_size
            /\ Len(r.batch) <= max_batch_size
            /\ \A i \in RemovedBy(r) :
                  \E k \in 1..Len(r.targets) :
                      /\ r.targets[k].path = FilePaths[i]
                      /\ Selectable(r.targets[k])
            /\ \A k \in 1..Len(r.batch) :
                  /\ Selectable(r.batch[k])
                  /\ \E j \in 1..Len(r.targets) : r.targets[j] = r.batch[k]

\* a call has removed a full batch of 15 files from a list that holds more
\* than 15 selectable candidates and candidates below either threshold
C5_Witness ==
    /\ cleanup_result # <<>>
    /\ cleanup_result.count = max_batch_size
    /\ Cardinality(RemovedBy(cleanup_result)) = max_batch_size
    /\ Cardinality({k \in 1..Len(cleanup_result.targets) :
                       Selectable(cleanup_result.targets[k])})
          > max_batch_size
    /\ \E k \in 1..Len(cleanup_result.targets) :
          cleanup_result.targets[k].safety_score <= 7
    /\ \E k \in 1..Len(cleanup_result.targets) :
          cleanup_result.targets[k].priority <= 500

\* C6: with auto_cleanup disabled, perform_cleanup removes no file and
\* reports a count of 0 and 0 bytes, for every candidate list and whichever
\* caller (the periodic cycle, the 'cleanup' command) makes the call
C6_DisabledRemovesNothing ==
    (cleanup_result # <<>> /\ ~config.auto_cleanup) =>
        /\ cleanup_result.count = 0
        /\ cleanup_result.size = 0
        /\ cleanup_result.categories = <<>>
        /\ cleanup_result.files = cleanup_result.before
        /\ files = cleanup_result.before

\* the 'cleanup' command has called perform_cleanup with auto_cleanup
\* disabled on a list that holds selectable candidates of existing files
C6_Witness ==
    /\ cleanup_result # <<>>
    /\ ~config.auto_cleanup
    /\ cleanup_result.caller = "command"
    /\ \E k \in 1..Len(cleanup_result.targets) :
          /\ Selectable(cleanup_result.targets[k])
          /\ IdOf(cleanup_result.targets[k].path) \in DOMAIN files

\* C7: a failure to remove one candidate of the batch is passed over: every
\* candidate of the batch is processed, the later ones included (a later
\* candidate that meets no fault and passes the final check is removed), the
\* call returns, and the count and the size it returns are those of the
\* files it removed; a file whose removal failed is still there
C7_FailureSwallowed ==
    (cleanup_result # <<>> /\ cleanup_result.enabled) =>
        LET r == cleanup_result
        IN  /\ Len(r.outcomes) = Len(r.batch)
            /\ \A k \in 1..Len(r.batch) :
                  LET i == IdOf(r.batch[k].path)
                  IN  /\ r.outcomes[k].path = r.batch[k].path
                      /\ (/\ FaultOn(r, i) = "none"
                          /\ _final_safety_check(i, r.before[i], FALSE))
                         => i \in RemovedBy(r)
                      /\ FaultOn(r, i) \in {"stat", "unlink"}
                         => i \in DOMAIN r.files
            /\ r.count = Cardinality(RemovedBy(r))
            /\ r.size = SizeOf(r.before, RemovedBy(r))

\* the removal of the first candidate of a batch has failed and later
\* candidates of the batch have been removed and counted
C7_Witness ==
    /\ cleanup_result # <<>>
    /\ cleanup_result.enabled
    /\ Len(cleanup_result.batch) > 2
    /\ FaultOn(cleanup_result, IdOf(cleanup_result.batch[1].path)) = "unlink"
    /\ cleanup_result.outcomes[1].outcome = "failed"
    /\ cleanup_result.count = Len(cleanup_result.batch) - 1
    /\ cleanup_result.size > 0

\* the candidates of the batch of r whose stat of line 268 or whose unlink
\* raises: those that the fault hits after they passed the final check
Raising(r) ==
    {k \in 1..Len(r.batch) :
        LET i == IdOf(r.batch[k].path)
        IN  /\ FaultOn(r, i) \in {"stat", "unlink"}
            /\ _final_safety_check(i, r.before[i], FALSE)}

\* the candidates of the batch of r that the else branch of line 273
\* counts: the file is gone, or _final_safety_check rejects it (its own
\* stat failing included)
Rejected(r) ==
    {k \in 1..Len(r.batch) :
        LET i == IdOf(r.batch[k].path)
        IN  \/ FaultOn(r, i) = "vanished"
            \/ ~_final_safety_check(i, r.before[i],
                                    FaultOn(r, i) = "check_stat")}

\* C8 as stated: after a call, removed count + safety-skipped count is the
\* number of candidates in the batch, a failed stat or delete being counted
\* as skipped
C8_FailuresCountedSkipped ==
    (cleanup_result # <<>> /\ cleanup_result.enabled) =>
        /\ Len(cleanup_result.batch) <= max_batch_size
        /\ cleanup_result.count + cleanup_result.safety_skipped
              = Len(cleanup_result.batch)

\* C8 as amended: a candidate whose stat of line 268 or whose delete raises
\* is counted neither as removed nor as safety-skipped; removed count +
\* safety-skipped count + the number of those candidates is the size of the
\* batch (at most 15), and safety-skipped counts the candidates whose file
\* is gone or that _final_safety_check rejects
C8_FailuresUncounted ==
    (cleanup_result # <<>> /\ cleanup_result.enabled) =>
        LET r == cleanup_result
        IN  /\ Len(r.batch) <= max_batch_size
            /\ r.count + r.safety_skipped + Cardinality(Raising(r))
                  = Len(r.batch)
            /\ r.safety_skipped = Cardinality(Rejected(r))
            /\ r.count = Cardinality(RemovedBy(r))

\* a call has removed files, safety-skipped a file and passed over a file
\* whose stat raised
C8_Witness ==
    /\ cleanup_result # <<>>
    /\ cleanup_result.enabled
    /\ cleanup_result.count > 0
    /\ cleanup_result.safety_skipped > 0
    /\ \E k \in Raising(cleanup_result) :
          FaultOn(cleanup_result,
                  IdOf(cleanup_result.batch[k].path)) = "stat"

----------------------------------------------------------------------------
(* check_thresholds and the loop of run (lines 414-477).  The loop body    *)
(* runs one group of statements per step; pc names the group to run next.  *)
(* The report of lines 453-455 is due after 1800 s, beyond the runs here.  *)

\* lines 179-199 with the anomalies and the trends looked at only when no
\* threshold is exceeded
check_thresholds_exclusive(m) ==
    LET trend == m.trend_prediction
        over(metric, value, threshold, message) ==
            IF value > threshold
            THEN <<[message |-> message,
                    technical_details |-> [metric |-> metric,
                                           value |-> value]]>>
            ELSE <<>>
        predictive(metric) ==
            IF /\ metric \in DOMAIN trend
               /\ trend[metric].direction = "increasing"
               /\ trend[metric].rate > 200
            THEN <<[message |-> "Predictive Alert",
                    technical_details |-> [metric |-> metric,
                                           value |-> trend[metric].rate]]>>
            ELSE <<>>
        exceeded ==
            over("cpu", m.cpu_percent, config.cpu_threshold, "CPU Threshold")
            \o over("memory", m.memory_percent, config.memory_threshold,
                    "Memory Pressure")
            \o over("disk", m.disk_percent, config.disk_threshold,
                    "Disk Critical")
    IN  IF exceeded # <<>> THEN exceeded
        ELSE [i \in 1..Len(m.anomaly_detected) |->
                 [message |-> "Statistical Anomaly",
                  technical_details |-> m.anomaly_detected[i]]]
             \o predictive("cpu") \o predictive("memory")
             \o predictive("disk")

\* check_thresholds: the alerts as (message, technical_details), in the
\* order of lines 179-199; a rate is in hundredths
check_thresholds(m) ==
    LET trend == m.trend_prediction
        over(metric, value, threshold, message) ==
            IF value > threshold
            THEN <<[message |-> message,
                    technical_details |-> [metric |-> metric,
                                           value |-> value]]>>
            ELSE <<>>
        predictive(metric) ==
            IF /\ metric \in DOMAIN trend
               /\ trend[metric].direction = "increasing"
               /\ trend[metric].rate > 200
            THEN <<[message |-> "Predictive Alert",
                    technical_details |-> [metric |-> metric,
                                           value |-> trend[metric].rate]]>>
            ELSE <<>>
    IN  over("cpu", m.cpu_percent, config.cpu_threshold, "CPU Threshold")
        \o over("memory", m.memory_percent, config.memory_threshold,
                "Memory Pressure")
        \o over("disk", m.disk_percent, config.disk_threshold,
                "Disk Critical")
        \o [i \in 1..Len(m.anomaly_detected) |->
               [message |-> "Statistical Anomaly",
                technical_details |-> m.anomaly_detected[i]]]
        \o predictive("cpu") \o predictive("memory") \o predictive("disk")

\* add_alert for each entry in turn, lines 432-433: the buffer and the
\* history of alerts after the calls
RECURSIVE AlertsWith(_, _, _, _)
AlertsWith(q, hist, entries, level) ==
    IF entries = <<>> THEN [alerts |-> q, added |-> hist]
    ELSE LET a == [timestamp |-> Len(hist) + 1, level |-> level,
                   message |-> Head(entries).message,
                   technical_details |-> Head(entries).technical_details]
         IN  AlertsWith(DequeAppend(q, a), Append(hist, a), Tail(entries),
                        level)

\* self._demo_max_cycles: 30 in demo mode, where lines 29-32 also switch
\* auto_cleanup off, and None (0) otherwise
_demo_max_cycles == IF config.auto_cleanup THEN 0 ELSE 30

\* the groups of statements of the loop body
BodyPcs == {"sample", "thresholds", "cleanup", "optimize", "command",
            "finish"}

\* an entry of the history of the loop
Note(event, detail) ==
    history' = Append(history, [event |-> event, cycle |-> cycle_count,
                                detail |-> detail])

\* the events of a kind in the history
Events(kind) == SelectSeq(history, LAMBDA e : e.event = kind)

\* the faults the loop has met
LoopFaults ==
    failures + Len(Events("raise")) + Len(Events("scan_failed"))

\* the loop may meet another fault
MayFault == LoopFaults < MaxLoopFaults /\ cycle_count < MaxFaultWindow

\* line 435 with another period
CleanupDue_every_fifth == cycle_count % 5 = 0

\* line 435
CleanupDue == cycle_count % 6 = 0

\* line 447
OptimizeDue == cycle_count % 10 = 0

\* line 457
CommandDue == cycle_count % 15 = 0 /\ cycle_count > 0

\* lines 416-419
Start ==
    /\ pc = "start"
    /\ pc' = "sample"
    /\ cycle_count' = 0
    /\ UNCHANGED <<self_vars, running, history>>

\* line 426
Sample(limit, outliers, may_fail) ==
    /\ pc = "sample"
    /\ cycle_count < limit
    /\ get_system_metrics(2 * limit + 2, outliers)
    /\ failures' = failures \/ (may_fail /\ MayFault)
    /\ pc' = "thresholds"
    /\ Note("sample", Len(appended'.cpu))
    /\ UNCHANGED <<running, cycle_count>>

\* lines 427-433
Thresholds ==
    /\ pc = "thresholds"
    /\ IF metrics # <<>>
       THEN LET out == AlertsWith(alerts, added, check_thresholds(metrics),
                                  "warning")
            IN  alerts' = out.alerts /\ added' = out.added
       ELSE UNCHANGED <<alerts, added>>
    /\ pc' = "cleanup"
    /\ UNCHANGED <<config, ml_baseline, optimization_score, files, now,
                   caches, metrics, cleanup_result, optimizations, source,
                   appended, spikes, failures, alert_mix, running,
                   cycle_count, history>>

\* the candidates of a scan that lie below a directory whose enumeration
\* raised
FromFailed(targets, cut) ==
    SelectSeq(targets, LAMBDA c : DirOf[IdOf(c.path)] \in DOMAIN cut)

\* lines 435-445; the enumerations of the scan fail as one of `cuts` says.
\* The history notes the number of candidates of a scan, and for a scan
\* with a failed enumeration those from the failed directories
CleanupStep(cuts) ==
    /\ pc = "cleanup"
    /\ IF CleanupDue
       THEN \E cut \in cuts :
               LET cleanup_targets ==
                       scan_cleanup_targets(files, now, {}, cut)
                   r == perform_cleanup(files, cleanup_targets, <<>>)
               IN  /\ DOMAIN cut = {} \/ MayFault
                   /\ IF DOMAIN cut = {}
                      THEN Note("scan", Len(cleanup_targets))
                      ELSE Note("scan_failed",
                                Len(FromFailed(cleanup_targets, cut)))
                   /\ IF cleanup_targets # <<>>
                      THEN /\ files' = r.files
                           /\ cleanup_result' =
                                 r @@ [caller |-> "cycle",
                                       calls |-> CleanupCalls + 1]
                           /\ IF r.count > 0
                              THEN add_alert("Pro AI Cleanup", "info",
                                             [count |-> r.count,
                                              targets |->
                                                 Len(cleanup_targets)])
                              ELSE UNCHANGED <<alerts, added>>
                      ELSE UNCHANGED <<files, cleanup_result, alerts, added>>
       ELSE UNCHANGED <<files, cleanup_result, alerts, added, history>>
    /\ pc' = "optimize"
    /\ UNCHANGED <<config, ml_baseline, optimization_score, now, caches,
                   metrics, optimizations, source, appended, spikes,
                   failures, alert_mix, running, cycle_count>>

\* lines 447-451; the second gc.collect() of optimize_system finds fewer
\* objects or not, as one of `freeds` says
OptimizeStep(freeds) ==
    /\ pc = "optimize"
    /\ IF OptimizeDue
       THEN \E stuck \in SUBSET caches, freed \in freeds :
               LET cache_stats == _pure_cache_cleanup(caches, stuck)
                   cache_points == IF cache_stats.cleared > 0 THEN 20 ELSE 0
                   memory_points == IF freed THEN 15 ELSE 0
               IN  /\ caches' = cache_stats.left
                   /\ optimizations' =
                         (IF cache_stats.cleared > 0
                          THEN <<"Cache cleanup">> ELSE <<>>)
                         \o (IF freed THEN <<"Memory optimized">> ELSE <<>>)
                   /\ optimization_score' =
                         NewScore(optimization_score,
                                  cache_points + memory_points)
                   /\ IF optimizations' # <<>>
                      THEN add_alert("System Optimized", "info",
                                     [count |-> Len(optimizations'),
                                      score |-> optimization_score'])
                      ELSE UNCHANGED <<alerts, added>>
                   /\ Note("optimize", Len(optimizations'))
       ELSE UNCHANGED <<caches, optimizations, optimization_score, alerts,
                        added, history>>
    /\ pc' = "command"
    /\ UNCHANGED <<config, ml_baseline, files, now, metrics, cleanup_result,
                   source, appended, spikes, failures, alert_mix, running,
                   cycle_count>>

\* what the user types at the prompt of line 460: Enter, or a command
Commands == {"", "status", "report", "cleanup", "optimize", "quit"}

\* handle_command, lines 382-412; 'report', 'config' and 'alerts' print
handle_command(command) ==
    \/ /\ command = "status"
       /\ get_system_metrics(2 * MaxCycles + 2, {{}})
       /\ Note("status", Len(appended'.cpu))
       /\ UNCHANGED running
    \/ /\ command = "cleanup"
       /\ \E proceed \in BOOLEAN :
             LET targets == scan_cleanup_targets(files, now, {}, <<>>)
                 r == perform_cleanup(files, targets, <<>>)
             IN  /\ Note("command_scan", Len(targets))
                 /\ IF targets # <<>> /\ proceed
                    THEN /\ files' = r.files
                         /\ cleanup_result' =
                               r @@ [caller |-> "command",
                                     calls |-> CleanupCalls + 1]
                    ELSE UNCHANGED <<files, cleanup_result>>
       /\ UNCHANGED <<config, ml_baseline, alerts, optimization_score, now,
                      caches, metrics, optimizations, source, appended,
                      added, spikes, failures, alert_mix, running>>
    \/ /\ command = "optimize"
       /\ optimize_system
       /\ UNCHANGED <<running, history>>
    \/ /\ command = "quit"
       /\ running' = FALSE
       /\ Note("quit", 0)
       /\ UNCHANGED self_vars
    \/ /\ command \in {"", "report"}
       /\ UNCHANGED <<self_vars, running, history>>

\* lines 457-462
CommandStep ==
    /\ pc = "command"
    /\ IF CommandDue
       THEN \E user_input \in Commands : handle_command(user_input)
       ELSE UNCHANGED <<self_vars, running, history>>
    /\ pc' = "finish"
    /\ UNCHANGED cycle_count

\* lines 464-470 without the test of line 468
Finish_no_limit ==
    /\ pc = "finish"
    /\ cycle_count' = cycle_count + 1
    /\ running' = running
    /\ pc' = IF running' THEN "sample" ELSE "done"
    /\ UNCHANGED <<self_vars, history>>

\* lines 464-470 and the test of line 422
Finish ==
    /\ pc = "finish"
    /\ cycle_count' = cycle_count + 1
    /\ running' = IF _demo_max_cycles # 0 /\ cycle_count' >= _demo_max_cycles
                  THEN FALSE ELSE running
    /\ pc' = IF running' THEN "sample" ELSE "done"
    /\ UNCHANGED <<self_vars, history>>

\* the kinds of exception that a statement of the loop body raises
ExceptionKinds == {"OSError"}

\* the except clause left out: the exception leaves run
ExceptHandler_propagates(kind) ==
    /\ pc' = "crashed"
    /\ Note("raise", 0)
    /\ UNCHANGED <<alerts, added>>

\* lines 475-477: the alert, time.sleep(5), and the test of line 422
ExceptHandler(kind) ==
    /\ add_alert("Runtime error", "error",
                 [cycle |-> cycle_count, exception |-> kind])
    /\ pc' = IF running THEN "sample" ELSE "done"
    /\ Note("raise", 5)

\* a statement of the loop body raises an exception, where the run may
\* meet one
RaiseIf(may_fault) ==
    /\ pc \in BodyPcs
    /\ may_fault
    /\ \E kind \in ExceptionKinds : ExceptHandler(kind)
    /\ UNCHANGED <<config, ml_baseline, optimization_score, files, now,
                   caches, metrics, cleanup_result, optimizations, source,
                   appended, spikes, failures, alert_mix, running,
                   cycle_count>>

\* an exception in one of the first cycles
Raise == RaiseIf(MayFault)

\* lines 472-474: Ctrl-C in the loop body
Interrupt ==
    /\ pc \in BodyPcs
    /\ running' = FALSE
    /\ pc' = "done"
    /\ Note("interrupt", 0)
    /\ UNCHANGED <<self_vars, cycle_count>>

\* the files of a short scan
SmallTree == Without(FullTree, 4..BulkFiles)

\* an undisturbed run: any pattern of the signals, files to clean or none
InitRun ==
    /\ Constructed(FALSE)
    /\ source \in Patterns \cup DriftPatterns
    /\ alert_mix = "warnings"
    /\ files \in {<<>>, SmallTree}
    /\ caches \in {{}, {".cache"}}

NextRun ==
    \/ Start /\ UNCHANGED call_vars
    \/ Sample(MaxCycles, {{}}, FALSE) /\ UNCHANGED call_vars
    \/ Thresholds /\ UNCHANGED call_vars
    \/ CleanupStep({<<>>}) /\ UNCHANGED call_vars
    \/ OptimizeStep(BOOLEAN) /\ UNCHANGED call_vars
    \/ CommandStep /\ UNCHANGED call_vars
    \/ Finish /\ UNCHANGED call_vars
    \/ Interrupt /\ UNCHANGED call_vars

SpecRun == InitRun /\ [][NextRun]_vars

\* a run that meets faults: exceptions in the loop body, failed signal
\* reads, failed enumerations
InitFaults ==
    /\ Constructed(FALSE)
    /\ source = "const"
    /\ alert_mix = "warnings"
    /\ files = SmallTree
    /\ caches = {}

NextFaults ==
    \/ Start /\ UNCHANGED call_vars
    \/ Sample(MaxFaultCycles, {{}}, TRUE) /\ UNCHANGED call_vars
    \/ Thresholds /\ UNCHANGED call_vars
    \/ CleanupStep(Cuts) /\ UNCHANGED call_vars
    \/ OptimizeStep({FALSE}) /\ UNCHANGED call_vars
    \/ CommandStep /\ UNCHANGED call_vars
    \/ Finish /\ UNCHANGED call_vars
    \/ Raise /\ UNCHANGED call_vars

SpecFaults == InitFaults /\ [][NextFaults]_vars

----------------------------------------------------------------------------
(* Properties of the loop.                                                 *)

\* the step ends in the except clause of line 475
Raised ==
    /\ Len(history') > Len(history)
    /\ history'[Len(history')].event = "raise"

\* C11: an exception raised in an iteration of the loop is caught at the
\* loop: one error-level alert with the cycle number and the kind of the
\* exception is added, a cool-down of 5 s follows, and the loop goes on with
\* the same cycle; the exception never leaves run, and running stays set
C11_ExceptionCaughtAtLoop ==
    /\ [](pc \in BodyPcs \cup {"start", "done"})
    /\ [](running /\ pc # "done")
    /\ [][Raised =>
            /\ Len(added') = Len(added) + 1
            /\ SubSeq(added', 1, Len(added)) = added
            /\ added'[Len(added')].level = "error"
            /\ added'[Len(added')].technical_details.cycle = cycle_count
            /\ added'[Len(added')].technical_details.exception
                  \in ExceptionKinds
            /\ alerts'[Len(alerts')] = added'[Len(added')]
            /\ history'[Len(history')].detail = 5
            /\ history'[Len(history')].cycle = cycle_count
            /\ pc' = "sample"
            /\ cycle_count' = cycle_count
            /\ running']_vars

\* an exception was raised in cycle 1 after its sample was taken, the alert
\* is in the buffer, and the loop has gone on to later cycles
C11_Witness ==
    /\ cycle_count > 4
    /\ running
    /\ \E k \in 2..Len(history) :
          /\ history[k].event = "raise"
          /\ history[k].cycle = 1
          /\ history[k - 1].event = "sample"
    /\ \E k \in 1..Len(alerts) :
          /\ alerts[k].level = "error"
          /\ alerts[k].message = "Runtime error"
          /\ alerts[k].technical_details.cycle = 1

\* the step is a get_system_metrics call whose signal source raised
SourceFailed == failures' = failures + 1

\* the step is a scan in which an enumeration raised
ScanFailed ==
    /\ Len(history') > Len(history)
    /\ history'[Len(history')].event = "scan_failed"

\* the step adds exactly one alert, of level error
OneErrorAlert ==
    /\ Len(added') = Len(added) + 1
    /\ added'[Len(added')].level = "error"
    /\ alerts'[Len(alerts')] = added'[Len(added')]

\* C12: when the signal source or the enumeration of the files fails in a
\* cycle, an error-level alert is added, the result is empty (no metrics
\* record, no candidate from the failed enumeration), and the loop goes on
C12_FailureAlertedResultEmpty ==
    /\ [][SourceFailed =>
            /\ OneErrorAlert
            /\ metrics' = <<>>
            /\ running' /\ pc' \in BodyPcs]_vars
    /\ [][ScanFailed =>
            /\ OneErrorAlert
            /\ history'[Len(history')].detail = 0
            /\ running' /\ pc' \in BodyPcs]_vars

\* the number of events of the kinds in the history
Count(kinds) == Len(SelectSeq(history, LAMBDA e : e.event \in kinds))

\* the least number of periods that cover n cycles
Periods(n, period) == (n + period - 1) \div period

----------------------------------------------------------------------------
(* The health score as a function of its arguments.                        *)

\* percentages in tenths, around the limits of the penalty and at the ends
CpuTenths == {0, 5, 123, 500, 899, 900, 901, 950, 995, 1000}

MemoryTenths == {0, 7, 300, 949, 950, 951, 1000}

DiskTenths == {0, 5, 333, 750, 995, 1000}

InitHealth ==
    /\ Constructed(FALSE)
    /\ source = "const"
    /\ alert_mix = "warnings"
    /\ files = <<>>
    /\ caches = {}

\* the arguments of a call are chosen
ChooseSample ==
    /\ health = <<>>
    /\ \E cpu \in CpuTenths, memory \in MemoryTenths, disk \in DiskTenths :
          health' = [cpu |-> cpu, memory |-> memory, disk |-> disk]
    /\ UNCHANGED <<self_vars, loop_vars, scanned>>

\* the call returns
ScoreHealth ==
    /\ health # <<>>
    /\ "score" \notin DOMAIN health
    /\ \E score \in HealthScores(health.cpu, health.memory, health.disk) :
          health' = [cpu |-> health.cpu, memory |-> health.memory,
                     disk |-> health.disk, score |-> score]
    /\ UNCHANGED <<self_vars, loop_vars, scanned>>

NextHealth == ChooseSample \/ ScoreHealth

SpecHealth == InitHealth /\ [][NextHealth]_vars

\* a call has returned
Scored == health # <<>> /\ "score" \in DOMAIN health

\* 0.4*(100-cpu) + 0.4*(100-memory) + 0.2*(100-disk) in 200ths of a percent
Unpenalized == 8 * (1000 - health.cpu) + 8 * (1000 - health.memory)
                   + 4 * (1000 - health.disk)

\* C14: for cpu, memory, disk in [0,100] the health score is 0.4*(100-cpu)
\* + 0.4*(100-memory) + 0.2*(100-disk), halved exactly when cpu > 90 or
\* memory > 95, rounded to one decimal (at most 0.05 away); it lies in
\* [0,100], is 100.0 for (0,0,0), and for (95,0,0) at most half of the
\* unpenalized value.
C14_HealthScore ==
    Scored =>
        LET expected == IF health.cpu > 900 \/ health.memory > 950
                        THEN Unpenalized \div 2 ELSE Unpenalized
            off == 20 * health.score - expected
        IN  /\ off \in -10..10
            /\ health.score \in 0..1000
            /\ (health.cpu = 0 /\ health.memory = 0 /\ health.disk = 0)
                  => health.score = 1000
            /\ (health.cpu = 950 /\ health.memory = 0 /\ health.disk = 0)
                  => 2 * 20 * health.score <= Unpenalized

\* the call with (95, 0, 0) returned 31.0, half of 62.0
C14_Witness ==
    /\ Scored
    /\ health.cpu = 950 /\ health.memory = 0 /\ health.disk = 0
    /\ health.score = 310

----------------------------------------------------------------------------
(* The anomaly rule, stated over the deviations from the mean.             *)

\* the sum over the data of (n * x - sum of the data)^2, n = Len(data):
\* n * n * the sum of the squared deviations from the mean
RECURSIVE ScaledDeviations(_, _, _)
ScaledDeviations(data, n, total) ==
    IF data = <<>> THEN 0
    ELSE (n * Head(data) - total) * (n * Head(data) - total)
             + ScaledDeviations(Tail(data), n, total)

\* the Bessel-corrected standard deviation of the window exceeds 0.5:
\* the sum of the squared deviations / (n - 1) > 1/4
BesselStdevAboveHalf(window) ==
    LET n == Len(window)
    IN  4 * ScaledDeviations(window, n, SumSeq(window)) > n * n * (n - 1)

\* |value - mean| > 2.0 * the Bessel-corrected standard deviation
BeyondTwoStdev(window, value) ==
    LET n == Len(window)
        total == SumSeq(window)
    IN  (n * value - total) * (n * value - total) * (n - 1)
            > 4 * ScaledDeviations(window, n, total)

\* the signals of the last cycle's anomaly list, in its order
FlaggedList ==
    [i \in 1..Len(metrics.anomaly_detected) |->
        metrics.anomaly_detected[i].metric]

\* C15: a signal whose window holds at least 10 values is flagged if and
\* only if the Bessel-corrected standard deviation of the window exceeds
\* 0.5 and the current value is further than 2.0 standard deviations from
\* the window mean; the signals are decided independently of each other,
\* each flagged signal has one record, with the current value.
C15_FlaggedIffBeyondTwoStdev ==
    Measured =>
        /\ \A sig \in SignalSet :
              Len(PriorWindow(sig)) >= 10 =>
                  (Flagged(sig) <=>
                      /\ BesselStdevAboveHalf(PriorWindow(sig))
                      /\ BeyondTwoStdev(PriorWindow(sig), LastSample(sig)))
        /\ \A i, j \in 1..Len(FlaggedList) :
              i # j => FlaggedList[i] # FlaggedList[j]
        /\ \A i \in 1..Len(metrics.anomaly_detected) :
              metrics.anomaly_detected[i].value
                  = LastSample(metrics.anomaly_detected[i].metric)

\* cpu and disk are flagged in the same cycle and memory, whose window
\* also varies by more than the floor, is not
C15_Witness ==
    /\ Measured
    /\ Flagged("cpu") /\ Flagged("disk") /\ ~Flagged("memory")
    /\ Len(PriorWindow("memory")) >= 10
    /\ BesselStdevAboveHalf(PriorWindow("memory"))

----------------------------------------------------------------------------
(* The trend report of a cycle.                                            *)

\* last - first over the last 5 entries of a window of at least 5
RiseOverFive(window) == window[Len(window)] - window[Len(window) - 4]

\* C16: the trend report of a cycle has an entry for a signal exactly when
\* the signal's window holds at least 5 values; the slope of the entry is
\* (last - first) / 5 over the last 5 window entries, and its direction is
\* increasing if slope > 1, decreasing if slope < -1, stable otherwise.
C16_TrendOverLastFive ==
    Measured =>
        \A sig \in SignalSet :
            /\ sig \in DOMAIN metrics.trend_prediction
                  <=> Len(PriorWindow(sig)) >= 5
            /\ Len(PriorWindow(sig)) >= 5 =>
                  LET rise == RiseOverFive(PriorWindow(sig))
                      entry == metrics.trend_prediction[sig]
                  IN  /\ 5 * entry.rate = 100 * rise
                      /\ entry.direction =
                            IF rise > 5 THEN "increasing"
                            ELSE IF rise < -5 THEN "decreasing"
                            ELSE "stable"

\* cpu rose by exactly 5 over its last 5 window entries, slope 1.00, and
\* is reported stable; the window holds more than 5 values
C16_Witness ==
    /\ Measured
    /\ Len(PriorWindow("cpu")) > 5
    /\ RiseOverFive(PriorWindow("cpu")) = 5
    /\ metrics.trend_prediction["cpu"].direction = "stable"
    /\ metrics.trend_prediction["cpu"].rate = 100

----------------------------------------------------------------------------
(* The alerts of a cycle.                                                  *)

\* the sets of signals whose sample of a cycle may be an outlier
SomeOutliers == {{}, {"memory"}, {"cpu", "disk"}}

\* runs of the loop over a varying and a rising signal source, with an
\* outlying sample in some cycle; nothing to clean
InitThresholds ==
    /\ Constructed(FALSE)
    /\ source \in {"alt", "surge"}
    /\ alert_mix = "warnings"
    /\ files = <<>>
    /\ caches = {}

NextThresholds ==
    \/ Start /\ UNCHANGED call_vars
    \/ Sample(MaxThresholdCycles, SomeOutliers, FALSE) /\ UNCHANGED call_vars
    \/ Thresholds /\ UNCHANGED call_vars
    \/ CleanupStep({<<>>}) /\ UNCHANGED call_vars
    \/ OptimizeStep({FALSE}) /\ UNCHANGED call_vars
    \/ CommandStep /\ UNCHANGED call_vars
    \/ Finish /\ UNCHANGED call_vars

SpecThresholds == InitThresholds /\ [][NextThresholds]_vars

\* the alerts a step adds
NewAlerts == SubSeq(added', Len(added) + 1, Len(added'))

\* the alerts of a list with the message
WithMessage(list, message) ==
    SelectSeq(list, LAMBDA a : a.message = message)

\* the signals that are over their configured threshold in the sample
OverThreshold ==
    {sig \in SignalSet :
        CASE sig = "cpu"    -> metrics.cpu_percent > 80
          [] sig = "memory" -> metrics.memory_percent > 85
          [] sig = "disk"   -> metrics.disk_percent > 90}

\* the signals with a trend entry that is increasing with rate > 2
RisingFast ==
    {sig \in DOMAIN metrics.trend_prediction :
        /\ metrics.trend_prediction[sig].direction = "increasing"
        /\ metrics.trend_prediction[sig].rate > 200}

\* the alerts of a list that are about the signal
About(list, sig) ==
    SelectSeq(list, LAMBDA a : a.technical_details.metric = sig)

\* C17: the alerts of a cycle are one threshold alert for each of cpu,
\* memory, disk whose value strictly exceeds its threshold (80/85/90), one
\* alert for every anomaly record, and one predictive alert for every trend
\* entry that is increasing with rate > 2, and no other; they are added as
\* warnings; with no value over its threshold, no anomaly and no such trend
\* the cycle adds no alert.
C17_AlertsAdditive ==
    [][(pc = "thresholds" /\ metrics # <<>>) =>
        LET exceeded == WithMessage(NewAlerts, "CPU Threshold")
                            \o WithMessage(NewAlerts, "Memory Pressure")
                            \o WithMessage(NewAlerts, "Disk Critical")
            anomalous == WithMessage(NewAlerts, "Statistical Anomaly")
            predicted == WithMessage(NewAlerts, "Predictive Alert")
        IN  /\ Len(NewAlerts) = Len(exceeded) + Len(anomalous)
                                    + Len(predicted)
            /\ \A k \in 1..Len(NewAlerts) : NewAlerts[k].level = "warning"
            /\ Len(WithMessage(NewAlerts, "CPU Threshold"))
                  = IF "cpu" \in OverThreshold THEN 1 ELSE 0
            /\ Len(WithMessage(NewAlerts, "Memory Pressure"))
                  = IF "memory" \in OverThreshold THEN 1 ELSE 0
            /\ Len(WithMessage(NewAlerts, "Disk Critical"))
                  = IF "disk" \in OverThreshold THEN 1 ELSE 0
            /\ Len(anomalous) = Len(metrics.anomaly_detected)
            /\ \A k \in 1..Len(anomalous) :
                  anomalous[k].technical_details = metrics.anomaly_detected[k]
            /\ \A sig \in SignalSet :
                  Len(About(predicted, sig))
                      = IF sig \in RisingFast THEN 1 ELSE 0
            /\ (OverThreshold = {} /\ metrics.anomaly_detected = <<>>
                   /\ RisingFast = {}) => NewAlerts = <<>>]_vars

\* the cycle whose cpu sample is the outlier has added a threshold alert,
\* an anomaly alert and a predictive alert for cpu: cpu is in three alerts
\* of the cycle
C17_Witness ==
    /\ pc = "cleanup"
    /\ metrics # <<>>
    /\ metrics.cpu_percent = SpikeValue
    /\ \E i, j, k \in 1..Len(added) :
          /\ i < j /\ j < k
          /\ added[i].message = "CPU Threshold"
          /\ added[i].technical_details.value = SpikeValue
          /\ added[j].message = "Statistical Anomaly"
          /\ added[j].technical_details.metric = "cpu"
          /\ added[k].message = "Predictive Alert"
          /\ added[k].technical_details.metric = "cpu"

----------------------------------------------------------------------------
(* The cleanup planner by itself: scans of a file set while time passes.   *)

InitScan ==
    /\ Constructed(FALSE)
    /\ source = "const"
    /\ alert_mix = "warnings"
    /\ files \in FileSystems
    /\ caches = {}

\* a call of scan_cleanup_targets, lines 210-231: its result, and for the
\* record the file set and the clock it read and the candidate record of
\* every file it looked at (line 225 scores each of them)
ScanCall ==
    /\ Len(scanned) < MaxScans
    /\ scanned' =
          Append(scanned,
                 [files |-> files, now |-> now,
                  scored |-> CandidatesOf(Discovered(files, 1), files, now),
                  targets |-> scan_cleanup_targets(files, now, {}, <<>>)])
    /\ UNCHANGED <<self_vars, loop_vars, health>>

\* an hour passes
Tick ==
    /\ now < StartTime + MaxHours
    /\ now' = now + 1
    /\ UNCHANGED <<config, ml_baseline, alerts, optimization_score, files,
                   caches, metrics, cleanup_result, optimizations, source,
                   appended, added, spikes, failures, alert_mix, loop_vars,
                   call_vars>>

\* another process removes one of the files, once
FileRemoved ==
    /\ \A i \in FileIds : i > BulkFiles => i \in DOMAIN files
    /\ \E i \in DOMAIN files :
          /\ i > BulkFiles
          /\ files' = Without(files, {i})
    /\ UNCHANGED <<config, ml_baseline, alerts, optimization_score, now,
                   caches, metrics, cleanup_result, optimizations, source,
                   appended, added, spikes, failures, alert_mix, loop_vars,
                   call_vars>>

NextScan == ScanCall \/ Tick \/ FileRemoved

SpecScan == InitScan /\ [][NextScan]_vars

\* the file is older than max_file_age_days (30 days of 24 hours) at t
OlderThanLimit(st, t) == t - st.mtime > 30 * 24

\* C18: a scan returns only files older than max_file_age_days whose
\* priority is > 0.2, each once, sorted by priority descending, candidates
\* of equal priority in their order of discovery.
C18_OldRankedStable ==
    \A s \in 1..Len(scanned) :
        LET out == scanned[s].targets
        IN  /\ \A k \in 1..Len(out) :
                  /\ IdOf(out[k].path) \in DOMAIN scanned[s].files
                  /\ OlderThanLimit(scanned[s].files[IdOf(out[k].path)],
                                    scanned[s].now)
                  /\ out[k].priority > 200
            /\ \A j, k \in 1..Len(out) :
                  j < k =>
                      /\ out[j].path # out[k].path
                      /\ out[j].priority >= out[k].priority
                      /\ out[j].priority = out[k].priority
                            => IdOf(out[j].path) < IdOf(out[k].path)

\* a scan has left out the file that is exactly 30 days old and has
\* returned candidates of different priorities and two of the same one
C18_Witness ==
    \E s \in 1..Len(scanned) :
        LET out == scanned[s].targets
        IN  /\ \E i \in DOMAIN scanned[s].files :
                  /\ scanned[s].now - scanned[s].files[i].mtime = 30 * 24
                  /\ \A k \in 1..Len(out) : out[k].path # FilePaths[i]
            /\ \E j, k \in 1..Len(out) :
                  j < k /\ out[j].priority = out[k].priority
            /\ \E j, k \in 1..Len(out) : out[j].priority > out[k].priority

\* the extensions of the disposable categories
DisposableExtensions == {S_tmp, S_cache, S_log, S_out, S_bak, S_old}

\* three times 0.4*min(1, age_days/30) + 0.3*min(1, size_mb/100)
\* + 0.2*type_score + 0.1*location_score in thousandths, for the candidate
\* record c, with type_score 0.8 for the extensions in `disposable`
ThricePriority(c, disposable) ==
    40 * Min(30, c.age_days) + 9 * Min(100, c.size_mb)
        + (IF disposable THEN 480 ELSE 180)
        + (IF Contains(Lower(c.path), S_temp) THEN 270 ELSE 150)

\* C19: for every file the priority is 0.4*min(1, age_days/30)
\* + 0.3*min(1, size_mb/100) + 0.2*type_score + 0.1*location_score rounded
\* to 3 decimals, type_score being 0.8 exactly when the extension is one of
\* .tmp, .cache, .log, .out, .bak, .old and 0.3 otherwise, location_score
\* 0.9 exactly when the path contains "temp" in any case and 0.5 otherwise;
\* a file of 31 days and 50 MB with extension .tmp and "temp" in its path
\* has priority 0.800.
C19_PriorityFormula ==
    \A s \in 1..Len(scanned) :
        \A k \in 1..Len(scanned[s].scored) :
            LET c == scanned[s].scored[k]
                ext == Lower(SuffixOf(c.path))
                exact == ThricePriority(c, ext \in DisposableExtensions)
            IN  /\ 3 * c.priority - exact \in -1..1
                /\ (/\ c.age_days = 31 /\ c.size_mb = 50 /\ ext = S_tmp
                    /\ Contains(Lower(c.path), S_temp))
                      => c.priority = 800

\* the ranked output of a scan: the candidates in their order, each with
\* its priority, category and safety_score
Ranked(targets) ==
    [k \in 1..Len(targets) |->
        [path |-> targets[k].path, priority |-> targets[k].priority,
         category |-> targets[k].category,
         safety_score |-> targets[k].safety_score]]

\* no file of the set is older than max_file_age_days at one of the two
\* times and not at the other
SameOldFiles(fs, t1, t2) ==
    \A i \in DOMAIN fs :
        OlderThanLimit(fs[i], t1) <=> OlderThanLimit(fs[i], t2)

\* C20 as stated: two scans of an unchanged file set yield identical ranked
\* output: the same candidates in the same order with the same priority,
\* category and safety_score.
C20_ScansIdentical ==
    \A s1, s2 \in 1..Len(scanned) :
        scanned[s1].files = scanned[s2].files
            => Ranked(scanned[s1].targets) = Ranked(scanned[s2].targets)

\* C20 as amended: two scans of an unchanged file set yield identical
\* ranked output unless a file has become older than max_file_age_days
\* between them; the output of a scan depends on the file set and on the
\* clock and on nothing that an earlier scan left behind.
C20_ScansIdenticalUntilFileAges ==
    \A s1, s2 \in 1..Len(scanned) :
        /\ (/\ scanned[s1].files = scanned[s2].files
            /\ SameOldFiles(scanned[s1].files, scanned[s1].now,
                            scanned[s2].now))
              => Ranked(scanned[s1].targets) = Ranked(scanned[s2].targets)
        /\ (/\ scanned[s1].files = scanned[s2].files
            /\ scanned[s1].now = scanned[s2].now)
              => scanned[s1].targets = scanned[s2].targets

\* two scans of the same files, an hour or more apart, have returned the
\* same ranked candidates
C20_Witness ==
    \E s1, s2 \in 1..Len(scanned) :
        /\ s1 < s2
        /\ scanned[s1].files = scanned[s2].files
        /\ scanned[s1].now < scanned[s2].now
        /\ scanned[s1].targets # <<>>
        /\ Ranked(scanned[s1].targets) = Ranked(scanned[s2].targets)

----------------------------------------------------------------------------
(* The samples of an iteration of the loop.                                *)

\* the history entry notes a get_system_metrics call and the number of
\* values the windows had been given when it returned
NotesSample(k) == history[k].event \in {"sample", "status"}

\* the number of values the windows had been given after the first k
\* entries of the history
GivenAfter(k) ==
    IF \E j \in 1..k : NotesSample(j)
    THEN history[CHOOSE j \in 1..k :
                    NotesSample(j) /\ \A i \in (j + 1)..k : ~NotesSample(i)
                ].detail
    ELSE 0

\* the last entry of the iteration that begins with entry k, the sample of
\* line 426: the entry before the next such sample, or the last one so far
IterationEnd(k) ==
    IF \E j \in (k + 1)..Len(history) : history[j].event = "sample"
    THEN (CHOOSE j \in (k + 1)..Len(history) :
             /\ history[j].event = "sample"
             /\ \A i \in (k + 1)..(j - 1) : history[i].event # "sample") - 1
    ELSE Len(history)

\* C21: in every iteration of the loop, those that handle an interactive
\* command such as 'status' included, each baseline window receives at most
\* one new value.
C21_OneValuePerIteration ==
    \A k \in 1..Len(history) :
        history[k].event = "sample" =>
            GivenAfter(IterationEnd(k)) - GivenAfter(k - 1) <= 1

----------------------------------------------------------------------------
(* Demo mode: DEMO is set in the environment.                              *)

\* a run in demo mode: old files below the temp directories, a cache
\* directory below the working directory
InitDemo ==
    /\ Constructed(TRUE)
    /\ source = "const"
    /\ alert_mix = "warnings"
    /\ files = SmallTree
    /\ caches = {".cache"}

\* the loop may meet another fault: the faults of a run in demo mode occur
\* in its last MaxFaultWindow cycles
MayFaultLate ==
    LoopFaults < MaxLoopFaults /\ cycle_count >= 30 - MaxFaultWindow

NextDemo ==
    \/ Start /\ UNCHANGED call_vars
    \/ Sample(MaxDemoCycles, {{}}, FALSE) /\ UNCHANGED call_vars
    \/ Thresholds /\ UNCHANGED call_vars
    \/ CleanupStep({<<>>}) /\ UNCHANGED call_vars
    \/ OptimizeStep({FALSE}) /\ UNCHANGED call_vars
    \/ CommandStep /\ UNCHANGED call_vars
    \/ Finish /\ UNCHANGED call_vars
    \/ RaiseIf(MayFaultLate) /\ UNCHANGED call_vars
    \/ Interrupt /\ UNCHANGED call_vars

SpecDemo == InitDemo /\ [][NextDemo]_vars

\* C22: in demo mode no step of a cycle of the loop (the periodic cleanup,
\* the optimization pass, an interactive command) deletes a file or a
\* directory.
C22_DemoDeletesNothing ==
    [][DOMAIN files \subseteq DOMAIN files' /\ caches \subseteq caches']_vars

\* the control of run moves on from a statement of the loop, lines 416-477
DemoStep ==
    /\ pc # "done"
    /\ pc' \in {"start", "done"} \cup BodyPcs
    /\ pc' # pc

\* the run in demo mode goes on: the interpreter runs the next statement,
\* the prompt of line 460 returns, time.sleep returns
SpecDemoLive == SpecDemo /\ WF_pc(DemoStep)

\* the user has ended the run: 'quit' at the prompt, or Ctrl-C
UserStopped == Count({"quit", "interrupt"}) > 0

\* C23 as stated, the part of it that a finite run refutes: in demo mode
\* the loop exits after exactly 30 counted cycles.
C23_ExitsAtThirty == pc = "done" => cycle_count = 30

\* C23 as amended: in demo mode the loop comes to an end, with running
\* false, if the prompt returns and finitely many iterations raise; it
\* never counts more than 30 cycles; it exits after exactly 30 counted
\* cycles unless the user has ended it ('quit' at the prompt of cycle 15,
\* Ctrl-C), and then after fewer.
C23_DemoStops ==
    /\ <>(pc = "done")
    /\ [](pc = "done" => ~running)
    /\ [](cycle_count <= 30)
    /\ [](pc = "done" => (cycle_count = 30 <=> ~UserStopped))
    /\ [][(running /\ ~running' /\ ~UserStopped') => cycle_count' = 30]_vars

\* the run has ended by itself after 30 counted cycles, one of which had
\* raised an exception and was run again; the prompt of cycle 15 was
\* answered with 'status'
C23_Witness ==
    /\ pc = "done" /\ ~running
    /\ cycle_count = 30
    /\ ~UserStopped
    /\ Count({"raise"}) = 1
    /\ Count({"status"}) = 1
    /\ Count({"sample"}) = 31

----------------------------------------------------------------------------
(* The final safety check on the candidates that passed the policy gate.   *)

\* paths that the rules of _final_safety_check reject, beside those of the
\* file system: below a "System32" and a "program files" directory, and
\* with the suffix .sys
SystemPaths ==
    {<<"/", "t", "m", "p", "/", "S", "y", "s", "t", "e", "m", "3", "2", "/",
       "a", ".", "t", "m", "p">>,
     <<"/", "t", "m", "p", "/", "p", "r", "o", "g", "r", "a", "m", " ", "f",
       "i", "l", "e", "s", "/", "b", ".", "l", "o", "g">>,
     <<"/", "t", "m", "p", "/", "d", "r", "v", ".", "s", "y", "s">>}

\* the paths of the file system and the system paths
KnownPaths == {FilePaths[i] : i \in FileIds} \cup SystemPaths

\* the candidates of the batch of r that the else branch of line 273 has
\* counted
SafetySkipped(r) ==
    {k \in 1..Len(r.batch) : r.outcomes[k].outcome = "skipped"}

\* C24: the extension rule and the "system32"/"program files" rule of
\* _final_safety_check reject no candidate with safety_score > 0.7 (0.9);
\* a candidate that passed the gate of perform_cleanup is counted as
\* safety-skipped only when its file is gone, the stat of the check fails,
\* or the file is larger than 100 MB.
C24_SkippedOnlyForFileState ==
    /\ \A path \in KnownPaths :
          _assess_file_safety(path) > 7 => PathPassesFinalCheck(path)
    /\ (cleanup_result # <<>> /\ cleanup_result.enabled) =>
          LET r == cleanup_result
          IN  /\ r.safety_skipped = Cardinality(SafetySkipped(r))
              /\ \A k \in 1..Len(r.batch) :
                    LET i == IdOf(r.batch[k].path)
                    IN  /\ r.batch[k].safety_score = 9
                        /\ ~PathFacts[i].executable
                        /\ PathFacts[i].final_check
                        /\ k \in SafetySkipped(r) =>
                              \/ FaultOn(r, i) = "vanished"
                              \/ FaultOn(r, i) = "check_stat"
                              \/ r.before[i].size_mb > 100

\* a call has safety-skipped a candidate of 150 MB that met no fault and a
\* candidate whose stat failed in the check, and has removed the others;
\* its list held candidates that the path rules reject, outside the batch
C24_Witness ==
    /\ cleanup_result # <<>>
    /\ cleanup_result.enabled
    /\ \E k \in SafetySkipped(cleanup_result) :
          LET i == IdOf(cleanup_result.batch[k].path)
          IN  /\ FaultOn(cleanup_result, i) = "none"
              /\ cleanup_result.before[i].size_mb > 100
    /\ \E k \in SafetySkipped(cleanup_result) :
          FaultOn(cleanup_result,
                  IdOf(cleanup_result.batch[k].path)) = "check_stat"
    /\ cleanup_result.safety_skipped = 2
    /\ cleanup_result.count = Len(cleanup_result.batch) - 2
    /\ \E k \in 1..Len(cleanup_result.targets) :
          PathFacts[IdOf(cleanup_result.targets[k].path)].executable
    /\ \E path \in SystemPaths : ~PathPassesFinalCheck(path)

----------------------------------------------------------------------------
(* Cleanup cycles on a file set whose highest-ranked candidates are too    *)
(* large for the final safety check.                                       *)

\* the cycles of such a run
MaxStarveCycles == 13

\* /tmp/temp/big.tmp
BigTmp == IdOf(SpecialFiles[8].path)

\* the first max_batch_size files below /tmp have 150 MB each, and
\* /tmp/temp/big.tmp has 100 MB and is exactly 30 days old at the start
StarvedTree ==
    [i \in FileIds |->
        IF i <= max_batch_size
        THEN [size_mb |-> 150, mtime |-> BulkStat(i).mtime]
        ELSE IF i = BigTmp
        THEN [size_mb |-> 100, mtime |-> StartTime - 720]
        ELSE FullTree[i]]

InitStarve ==
    /\ Constructed(FALSE)
    /\ source = "const"
    /\ alert_mix = "warnings"
    /\ files = StarvedTree
    /\ caches = {}

\* the loop, and the clock of the machine
NextStarve ==
    \/ Start /\ UNCHANGED call_vars
    \/ Sample(MaxStarveCycles, {{}}, FALSE) /\ UNCHANGED call_vars
    \/ Thresholds /\ UNCHANGED call_vars
    \/ CleanupStep({<<>>}) /\ UNCHANGED call_vars
    \/ OptimizeStep({FALSE}) /\ UNCHANGED call_vars
    \/ CommandStep /\ UNCHANGED call_vars
    \/ Finish /\ UNCHANGED call_vars
    \/ Tick

SpecStarve == InitStarve /\ [][NextStarve]_vars

\* the 15 highest-ranked candidates of the list of r that pass the gate of
\* line 262
TopGatePassers(r) ==
    FirstN(SelectSeq(r.targets, LAMBDA t : Selectable(t)), 15)

\* the 15 highest-ranked gate-passing candidates of the call recorded by r
\* are all larger than 100 MB
Starved(r) ==
    /\ r # <<>>
    /\ r.enabled
    /\ Len(TopGatePassers(r)) = 15
    /\ \A k \in 1..15 :
          r.before[IdOf(TopGatePassers(r)[k].path)].size_mb > 100

\* the step is a call of perform_cleanup
CleanupCalled == CleanupCalls' = CleanupCalls + 1

\* the files of the candidates of the list of r
CandidateIds(r) == {IdOf(r.targets[k].path) : k \in 1..Len(r.targets)}

\* C25 as stated: if the 15 highest-priority gate-passing candidates of a
\* scan are all larger than 100 MB, perform_cleanup removes nothing, and no
\* later scan-and-cleanup cycle removes anything, the file set being
\* changed by nothing else.
C25_StarvedForGood ==
    [][/\ (CleanupCalled /\ Starved(cleanup_result')) => files' = files
       /\ Starved(cleanup_result) => files' = files]_vars

\* C25 as amended: such a call removes nothing; a later cycle whose scan
\* returns the same candidates removes nothing either; a later cycle removes
\* only files that were no candidates of that scan (they have become older
\* than max_file_age_days since) and rank among the 15 highest of their
\* scan; the candidates that the scan ranked below the 15 are never
\* removed.
C25_StarvedUntilNewCandidate ==
    [][/\ (CleanupCalled /\ Starved(cleanup_result')) => files' = files
       /\ Starved(cleanup_result) =>
             /\ CandidateIds(cleanup_result) \subseteq DOMAIN files'
             /\ (/\ CleanupCalled
                 /\ CandidateIds(cleanup_result')
                       = CandidateIds(cleanup_result))
                => files' = files
             /\ \A i \in DOMAIN files \ DOMAIN files' :
                   /\ CleanupCalled
                   /\ i \notin CandidateIds(cleanup_result)
                   /\ \E k \in 1..Len(cleanup_result'.batch) :
                         cleanup_result'.batch[k].path = FilePaths[i]
       /\ \A i \in DOMAIN files :
             OlderThanLimit(files[i], StartTime) => i \in DOMAIN files']_vars

\* the cleanup of cycle 0 found 21 candidates and removed nothing, the one
\* of cycle 6 found two more and removed /tmp/temp/big.tmp, the one of
\* cycle 12 found the 15 files of 150 MB on top again and removed nothing:
\* /tmp/c16.tmp and the other small candidates are still there
C25_Witness ==
    /\ Count({"scan"}) = 3
    /\ Events("scan")[1].detail + 2 = Events("scan")[2].detail
    /\ Events("scan")[3].detail + 1 = Events("scan")[2].detail
    /\ CleanupCalls = 3
    /\ Starved(cleanup_result)
    /\ cleanup_result.count = 0
    /\ cleanup_result.safety_skipped = 15
    /\ BigTmp \notin DOMAIN files
    /\ DOMAIN StarvedTree \ DOMAIN files = {BigTmp}
    /\ \E k \in 16..Len(cleanup_result.targets) :
          /\ Selectable(cleanup_result.targets[k])
          /\ cleanup_result.targets[k].size_mb <= 100

====
